---- MODULE Spec2Model ----
(***************************************************************************)
(* AgentTunnel gateway (gateway.js, auth/middleware.js): the credential    *)
(* store, the tunnel registry, the pipeline run store and the handlers     *)
(* that read and change them.                                              *)
(*                                                                         *)
(* Strings the code inspects (commands, urls, keys) are sequences of       *)
(* tokens, so that trim and startsWith are computed.  A JS object is a     *)
(* TLA+ function whose DOMAIN is the set of its own properties; a file is  *)
(* the JSON text written to it, [ok |-> FALSE] being unparseable text.     *)
(***************************************************************************)
EXTENDS Integers, Sequences, FiniteSets, TLC

\* ------------------------------------------------------------------ bounds
MaxClock == 1       \* Date.now() ranges over 0..MaxClock
MaxDay == 1         \* the calendar day ranges over 0..MaxDay
MaxInflight == 2    \* worker requests whose body is still awaited / unanswered
MaxRestarts == 1    \* restarts of the process that are followed
OrchLimit == 3      \* dailyLimit of the orchestrator credential in the file
WorkerLimit == 2    \* dailyLimit of the worker credentials in the file

\* ------------------------------------------------------ program constants
DefaultDailyLimit == 1000
SaveEvery == 100

\* ------------------------------------------------------------ string model
WS == " "

RECURSIVE TrimStart(_)
TrimStart(s) == IF s # <<>> /\ Head(s) = WS THEN TrimStart(Tail(s)) ELSE s

RECURSIVE TrimEnd(_)
TrimEnd(s) ==
    IF s # <<>> /\ s[Len(s)] = WS THEN TrimEnd(SubSeq(s, 1, Len(s) - 1)) ELSE s

\* String.prototype.trim
Trim(s) == TrimEnd(TrimStart(s))

\* String.prototype.startsWith
StartsWith(s, p) == Len(p) <= Len(s) /\ SubSeq(s, 1, Len(p)) = p

\* Array.prototype.includes
Includes(arr, x) == \E i \in DOMAIN arr : arr[i] = x

\* a JS value is truthy: strings are truthy unless empty
TruthyStr(s) == s # <<>>

\* property lookup that may be undefined
Has(obj, k) == k \in DOMAIN obj

\* ------------------------------------------------------------- file model
\* JSON.stringify of a store; a file that does not parse has ok = FALSE
Stringify(v) == [ok |-> TRUE, data |-> v]
\* JSON.parse succeeds on f
Parses(f) == f.ok
Parse(f) == f.data

\* -------------------------------------------------------------- constants
CmdA == <<"a">>
CmdB == <<"b">>

\* steps of a pipeline: each step is {command}
StepsAB == << [command |-> CmdA], [command |-> CmdB] >>
StepsBA == << [command |-> CmdB], [command |-> CmdA] >>
StepsA == << [command |-> CmdA] >>

TunnelNames == {"P", "Q"}
PublicViewer == "PublicViewer"

UrlRoot == <<"/">>
UrlStatus == <<"/", "status">>
OrchPrefix == <<"/", "orchestrator", "/">>
UrlTunnelsCreate == OrchPrefix \o <<"tunnels", "/", "create">>

KeyOrch == <<"orch">>
KeyW1 == <<"w1">>
KeyRevoked == <<"old">>
KeyUnknown == <<"zzz">>
\* the property of the credential file under which the authenticator looks
KeysProp == <<"keys">>
NoKey == <<>>

\* Date.now() rendered into a string
TimeStr(t) == <<"0", "1", "2", "3", "4", "5">>[t + 1]

\* ---------------------------------------------------------------- state
VARIABLES
    running,            \* the process is up
    now,                \* Date.now()
    today,              \* the date part of the clock (getTodayKey)
    tunnelsCache,       \* gateway.js tunnelsCache
    apiKeysCache,       \* gateway.js apiKeysCache
    pipelineStateCache, \* gateway.js pipelineStateCache
    mwApiKeysCache,     \* middleware.js apiKeysCache (null until first use)
    usageCache,         \* middleware.js usageCache
    tunnelsFile,        \* auth/tunnels.json
    apiKeysFile,        \* auth/api_keys.json
    pipelineStateFile,  \* auth/pipeline_state.json
    usageFile,          \* auth/usage_log.json
    inflight,           \* worker requests between arrival and response
    restarts,           \* how many times the process has been started again
    resp,               \* the response sent by the last step, if any
    sim,                \* simulate_pipeline.js: validateWithTunnel in progress
    make                \* the Makefile simulation: runPipeline in progress

vars == << running, now, today, tunnelsCache, apiKeysCache, pipelineStateCache,
           mwApiKeysCache, usageCache, tunnelsFile, apiKeysFile,
           pipelineStateFile, usageFile,
           inflight, restarts, resp, sim, make >>

\* ------------------------------------------------------- initial contents
Tunnel(methods, paths, keywords, commands, mode) ==
    [ description |-> <<"tunnel">>,
      allowed_methods |-> methods,
      allowed_paths |-> paths,
      forbidden_keywords |-> keywords,
      allowed_commands |-> commands,
      command_whitelist_mode |-> mode ]

WithPipeline(t, steps) == ("pipeline" :> [steps |-> steps]) @@ t

\* tunnels.json as deployed: P is a pipeline tunnel, Q a strict whitelist
InitTunnels ==
    ("P" :> WithPipeline(Tunnel(<<"GET", "POST">>, <<>>, <<>>, <<>>, "strict"), StepsAB))
    @@ ("Q" :> Tunnel(<<"GET", "POST">>, <<>>, <<>>, <<CmdA>>, "strict"))

OrchCred ==
    [ name |-> "openclaw", tier |-> "orchestrator",
      dailyLimit |-> OrchLimit, active |-> TRUE ]
WorkerCred(n, t, act) ==
    [ name |-> n, tier |-> "worker", tunnel |-> t,
      dailyLimit |-> WorkerLimit, active |-> act ]

\* the credentials the authenticator reads: api_keys.json under "keys"
InitKeys ==
    (KeyOrch :> OrchCred) @@ (KeyW1 :> WorkerCred("w1", "P", TRUE))
    @@ (KeyRevoked :> WorkerCred("old", "Q", FALSE))

\* api_keys.json holding the credentials under "keys" only
KeysNested == (KeysProp :> InitKeys)
\* api_keys.json that also lists the worker at top level, where gateway.js
\* looks (agents listing, agents/delete, /status worker count)
KeysBoth == (KeysProp :> InitKeys) @@ (KeyW1 :> WorkerCred("w1", "P", TRUE))

NoRequest == [pc |-> "idle"]
\* neither simulation script is being run
NoSim == [pc |-> "off"]
NoMake == [pc |-> "off"]
NoResponse == [status |-> 0]
EmptyObj == [x \in {} |-> 0]
NotLoaded == [loaded |-> FALSE]

\* startGateway on the deployed files; no request has been served
Init ==
    /\ running = TRUE
    /\ now = 0
    /\ today = 0
    /\ tunnelsFile = Stringify(InitTunnels)
    /\ tunnelsCache = InitTunnels
    /\ apiKeysFile \in {Stringify(KeysNested), Stringify(KeysBoth)}
    /\ apiKeysCache = Parse(apiKeysFile)
    /\ pipelineStateCache = EmptyObj
    /\ pipelineStateFile = Stringify(EmptyObj)
    /\ mwApiKeysCache = NotLoaded
    /\ usageCache = EmptyObj
    /\ usageFile = Stringify(EmptyObj)
    /\ inflight = [i \in 1..MaxInflight |-> NoRequest]
    /\ restarts = 0
    /\ sim = NoSim
    /\ make = NoMake
    /\ resp = NoResponse

\* ------------------------------------------------------------------ time
\* the clock advances within the day
Tick ==
    /\ now < MaxClock
    /\ now' = now + 1
    /\ UNCHANGED << running, restarts, sim, make, today, tunnelsCache, apiKeysCache,
                    pipelineStateCache, mwApiKeysCache, usageCache,
                    tunnelsFile, apiKeysFile, pipelineStateFile, usageFile, inflight >>
    /\ resp' = NoResponse

\* the clock passes midnight
NextDay ==
    /\ now < MaxClock
    /\ today < MaxDay
    /\ now' = now + 1
    /\ today' = today + 1
    /\ UNCHANGED << running, restarts, sim, make, tunnelsCache, apiKeysCache,
                    pipelineStateCache, mwApiKeysCache, usageCache,
                    tunnelsFile, apiKeysFile, pipelineStateFile, usageFile, inflight >>
    /\ resp' = NoResponse

\* ------------------------------------------------------------- saving
\* fs.writeFileSync of the store given, before the handler goes on
saveTunnels(cache) == Stringify(cache)
saveApiKeys(cache) == Stringify(cache)

\* a save that writes the run store as it was before the handler changed it
savePipelineStateBefore(cache) == Stringify(pipelineStateCache)

savePipelineState(cache) == Stringify(cache)

\* --------------------------------------------------------- process death
\* an uncaught exception or process.exit: memory is lost, the files stay
Dies ==
    /\ running' = FALSE
    /\ tunnelsCache' = EmptyObj
    /\ apiKeysCache' = EmptyObj
    /\ pipelineStateCache' = EmptyObj
    /\ mwApiKeysCache' = NotLoaded
    /\ usageCache' = EmptyObj
    /\ inflight' = [i \in 1..MaxInflight |-> NoRequest]
    /\ UNCHANGED << restarts, sim, make, now, today, tunnelsFile, apiKeysFile,
                    pipelineStateFile, usageFile >>
    /\ resp' = NoResponse

\* ------------------------------------------------- auth/middleware.js
\* loadApiKeys: the file is read on first use only
MwKeys == IF mwApiKeysCache.loaded THEN mwApiKeysCache.data ELSE Parse(apiKeysFile)
LoadThrows == ~mwApiKeysCache.loaded /\ ~Parses(apiKeysFile)

\* validateApiKey without the check of `active`
validateApiKeyIgnoresActive(apiKey) ==
    LET keys == MwKeys IN
    IF ~Has(keys[KeysProp], apiKey)
    THEN [valid |-> FALSE, error |-> "Invalid API key"]
    ELSE [valid |-> TRUE, keyData |-> keys[KeysProp][apiKey]]

validateApiKey(apiKey) ==
    LET keys == MwKeys IN
    IF ~Has(keys[KeysProp], apiKey)
    THEN [valid |-> FALSE, error |-> "Invalid API key"]
    ELSE IF ~keys[KeysProp][apiKey].active
    THEN [valid |-> FALSE, error |-> "API key has been revoked"]
    ELSE [valid |-> TRUE, keyData |-> keys[KeysProp][apiKey]]

\* validateApiKey throws: unreadable file, or no "keys" property in it
AuthThrows(apiKey) ==
    apiKey # NoKey /\ (LoadThrows \/ ~Has(MwKeys, KeysProp))

\* usageCache once checkRateLimit / incrementUsage has initialised the entry
UsageInit(apiKey) ==
    LET u1 == IF Has(usageCache, apiKey) THEN usageCache
              ELSE (apiKey :> EmptyObj) @@ usageCache
    IN IF Has(u1[apiKey], today) /\ u1[apiKey][today] # 0 THEN u1
       ELSE [u1 EXCEPT ![apiKey] = (today :> 0) @@ u1[apiKey]]

\* checkRateLimit that denies only above the limit
checkRateLimitAboveLimit(apiKey, keyData) ==
    LET currentUsage == UsageInit(apiKey)[apiKey][today]
        limit == keyData.dailyLimit
    IN IF currentUsage > limit
       THEN [allowed |-> FALSE, error |-> "Daily rate limit exceeded",
             usage |-> currentUsage, limit |-> limit]
       ELSE [allowed |-> TRUE, usage |-> currentUsage, limit |-> limit]

checkRateLimit(apiKey, keyData) ==
    LET currentUsage == UsageInit(apiKey)[apiKey][today]
        limit == keyData.dailyLimit
    IN IF currentUsage >= limit
       THEN [allowed |-> FALSE, error |-> "Daily rate limit exceeded",
             usage |-> currentUsage, limit |-> limit]
       ELSE [allowed |-> TRUE, usage |-> currentUsage, limit |-> limit]

\* incrementUsage that counts a request twice
incrementUsageTwice(apiKey) ==
    LET u == UsageInit(apiKey) IN [u EXCEPT ![apiKey][today] = @ + 2]

incrementUsage(apiKey) ==
    LET u == UsageInit(apiKey) IN [u EXCEPT ![apiKey][today] = @ + 1]

\* authenticate: the response it sends, or status 0 and req.client for next()
authenticate(apiKey) ==
    IF apiKey = NoKey
    THEN [status |-> 401, error |-> "Authentication required",
          message |-> "Missing x-api-key header"]
    ELSE LET validation == validateApiKey(apiKey) IN
         IF ~validation.valid
         THEN [status |-> 401, error |-> "Authentication failed",
               message |-> validation.error]
         ELSE LET rl == checkRateLimit(apiKey, validation.keyData)
                  kd == validation.keyData
              IN IF ~rl.allowed
                 THEN [status |-> 429, error |-> "Rate limit exceeded",
                       message |-> rl.error, usage |-> rl.usage,
                       limit |-> rl.limit]
                 ELSE [status |-> 0,
                       client |->
                         (IF Has(kd, "tunnel") THEN ("tunnel" :> kd.tunnel)
                          ELSE EmptyObj)
                         @@ [apiKey |-> apiKey, name |-> kd.name,
                             tier |-> kd.tier, usage |-> rl.usage,
                             limit |-> rl.limit]]

\* what authenticate leaves in the middleware's memory and usage_log.json
AuthEffect(apiKey) ==
    LET a == authenticate(apiKey) IN
    /\ mwApiKeysCache' = IF apiKey = NoKey THEN mwApiKeysCache
                         ELSE [loaded |-> TRUE, data |-> MwKeys]
    /\ usageCache' = IF a.status = 0 THEN incrementUsage(apiKey)
                     ELSE IF a.status = 429 THEN UsageInit(apiKey)
                     ELSE usageCache
    /\ usageFile' = IF a.status = 0
                       /\ incrementUsage(apiKey)[apiKey][today] % SaveEvery = 0
                    THEN Stringify(incrementUsage(apiKey))
                    ELSE usageFile

\* the request passes the authenticator
Admitted(apiKey) == ~AuthThrows(apiKey) /\ authenticate(apiKey).status = 0

\* ------------------------------------------------ pipeline state machine
\* `run_${Date.now()}`
RunId(t) == <<"run_", TimeStr(t)>>
\* JSON null in a response (no command of the model is this string)
Null == <<"null">>

HasPipeline(tunnel) == Has(tunnel, "pipeline")

\* the run is known, not completed or failed, and its tunnel has a pipeline
RunLive(runId) ==
    /\ Has(pipelineStateCache, runId)
    /\ pipelineStateCache[runId].status \notin {"completed", "failed"}
    /\ Has(tunnelsCache, pipelineStateCache[runId].pipeline)
    /\ HasPipeline(tunnelsCache[pipelineStateCache[runId].pipeline])

\* validatePipelineStep dereferences steps that are not there
ValidateThrows(runId) ==
    /\ RunLive(runId)
    /\ ~Has(tunnelsCache[pipelineStateCache[runId].pipeline].pipeline, "steps")

\* validatePipelineStep finds no step at current_step
ValidateCoerces(runId) ==
    /\ RunLive(runId)
    /\ ~ValidateThrows(runId)
    /\ pipelineStateCache[runId].current_step >=
         Len(tunnelsCache[pipelineStateCache[runId].pipeline].pipeline.steps)

\* validatePipelineStep that accepts the command of any step not yet confirmed
validatePipelineStepAnyStep(runId, command) ==
    IF ~Has(pipelineStateCache, runId)
    THEN [allowed |-> FALSE,
          error |-> <<"Pipeline run '">> \o runId
                    \o <<"' not found. Start pipeline first.">>]
    ELSE LET run == pipelineStateCache[runId] IN
    IF run.status \in {"completed", "failed"}
       \/ ~Has(tunnelsCache, run.pipeline)
       \/ ~HasPipeline(tunnelsCache[run.pipeline])
    THEN [allowed |-> FALSE, error |-> <<"Pipeline config no longer exists.">>]
    ELSE LET steps == tunnelsCache[run.pipeline].pipeline.steps
             later == {j \in (run.current_step + 1)..Len(steps) :
                         Trim(command) = Trim(steps[j].command)}
         IN
    IF later = {}
    THEN [allowed |-> FALSE, error |-> <<"Wrong step.">>]
    ELSE [allowed |-> TRUE, step |-> steps[CHOOSE j \in later : TRUE],
          stepIndex |-> run.current_step]

\* validatePipelineStep that turns a step away while another request holds
\* an allowed, unconfirmed step
validatePipelineStepOneHolder(runId, command) ==
    IF \E i \in DOMAIN inflight : inflight[i].pc = "validated"
    THEN [allowed |-> FALSE, error |-> <<"Pipeline run '">> \o runId \o <<"' busy.">>]
    ELSE IF ~Has(pipelineStateCache, runId)
    THEN [allowed |-> FALSE,
          error |-> <<"Pipeline run '">> \o runId
                    \o <<"' not found. Start pipeline first.">>]
    ELSE LET run == pipelineStateCache[runId] IN
    IF run.status \in {"completed", "failed"}
       \/ ~Has(tunnelsCache, run.pipeline)
       \/ ~HasPipeline(tunnelsCache[run.pipeline])
    THEN [allowed |-> FALSE, error |-> <<"Pipeline config no longer exists.">>]
    ELSE LET steps == tunnelsCache[run.pipeline].pipeline.steps IN
    IF run.current_step >= Len(steps)
       \/ Trim(command) # Trim(steps[run.current_step + 1].command)
    THEN [allowed |-> FALSE, error |-> <<"Wrong step.">>]
    ELSE [allowed |-> TRUE, step |-> steps[run.current_step + 1],
          stepIndex |-> run.current_step]

\* validatePipelineStep that lets a submission through when the pipeline of
\* the run is gone
validatePipelineStepVanishedAllowed(runId, command) ==
    IF ~Has(pipelineStateCache, runId)
    THEN [allowed |-> FALSE,
          error |-> <<"Pipeline run '">> \o runId
                    \o <<"' not found. Start pipeline first.">>]
    ELSE LET run == pipelineStateCache[runId] IN
    IF run.status = "completed"
    THEN [allowed |-> FALSE,
          error |-> <<"Pipeline run '">> \o runId \o <<"' already completed.">>]
    ELSE IF run.status = "failed"
    THEN [allowed |-> FALSE,
          error |-> <<"Pipeline run '">> \o runId
                    \o <<"' failed. Start a new run.">>]
    ELSE IF ~Has(tunnelsCache, run.pipeline)
            \/ ~HasPipeline(tunnelsCache[run.pipeline])
    THEN [allowed |-> TRUE, step |-> [command |-> command],
          stepIndex |-> run.current_step]
    ELSE LET steps == tunnelsCache[run.pipeline].pipeline.steps IN
    IF run.current_step >= Len(steps)
    THEN [allowed |-> FALSE, error |-> <<"All pipeline steps already completed.">>]
    ELSE LET expectedStep == steps[run.current_step + 1] IN
    IF Trim(command) # Trim(expectedStep.command)
    THEN [allowed |-> FALSE,
          error |-> <<"Wrong step. Expected step ", TimeStr(run.current_step + 1),
                      ": '">> \o expectedStep.command
                    \o <<"'. Cannot skip or reorder.">>,
          expected |-> expectedStep.command,
          received |-> command]
    ELSE [allowed |-> TRUE, step |-> expectedStep, stepIndex |-> run.current_step]

\* the result validatePipelineStep returns
validatePipelineStep(runId, command) ==
    IF ~Has(pipelineStateCache, runId)
    THEN [allowed |-> FALSE,
          error |-> <<"Pipeline run '">> \o runId
                    \o <<"' not found. Start pipeline first.">>]
    ELSE LET run == pipelineStateCache[runId] IN
    IF run.status = "completed"
    THEN [allowed |-> FALSE,
          error |-> <<"Pipeline run '">> \o runId \o <<"' already completed.">>]
    ELSE IF run.status = "failed"
    THEN [allowed |-> FALSE,
          error |-> <<"Pipeline run '">> \o runId
                    \o <<"' failed. Start a new run.">>]
    ELSE IF ~Has(tunnelsCache, run.pipeline)
            \/ ~HasPipeline(tunnelsCache[run.pipeline])
    THEN [allowed |-> FALSE, error |-> <<"Pipeline config no longer exists.">>]
    ELSE LET steps == tunnelsCache[run.pipeline].pipeline.steps IN
    IF run.current_step >= Len(steps)
    THEN [allowed |-> FALSE, error |-> <<"All pipeline steps already completed.">>]
    ELSE LET expectedStep == steps[run.current_step + 1] IN
    IF Trim(command) # Trim(expectedStep.command)
    THEN [allowed |-> FALSE,
          error |-> <<"Wrong step. Expected step ", TimeStr(run.current_step + 1),
                      ": '">> \o expectedStep.command
                    \o <<"'. Cannot skip or reorder.">>,
          expected |-> expectedStep.command,
          received |-> command]
    ELSE [allowed |-> TRUE, step |-> expectedStep, stepIndex |-> run.current_step]

\* validatePipelineStep that advances the run itself when a step is there
AfterValidateCommits(runId) ==
    IF RunLive(runId) /\ ~ValidateThrows(runId) /\ ~ValidateCoerces(runId)
    THEN [pipelineStateCache EXCEPT ![runId].current_step = @ + 1]
    ELSE pipelineStateCache

\* the run store validatePipelineStep leaves behind
AfterValidate(runId) ==
    IF ValidateCoerces(runId)
    THEN [pipelineStateCache EXCEPT ![runId] =
            ("completed_at" :> now) @@ [@ EXCEPT !.status = "completed"]]
    ELSE pipelineStateCache

\* confirmPipelineStep dereferences a tunnel, pipeline or step that is gone
ConfirmThrows(runId) ==
    /\ Has(pipelineStateCache, runId)
    /\ LET run == pipelineStateCache[runId] IN
       \/ ~Has(tunnelsCache, run.pipeline)
       \/ ~HasPipeline(tunnelsCache[run.pipeline])
       \/ ~Has(tunnelsCache[run.pipeline].pipeline, "steps")
       \/ run.current_step >= Len(tunnelsCache[run.pipeline].pipeline.steps)

\* confirmPipelineStep that records steps[0] instead of steps[current_step]
confirmPipelineStepFirst(runId) ==
    IF ~Has(pipelineStateCache, runId) THEN pipelineStateCache
    ELSE LET run == pipelineStateCache[runId]
             steps == tunnelsCache[run.pipeline].pipeline.steps
             pushed == [run EXCEPT
                          !.steps_completed = Append(@,
                              [step |-> run.current_step + 1,
                               command |-> steps[1].command,
                               confirmed_at |-> now]),
                          !.current_step = @ + 1]
         IN [pipelineStateCache EXCEPT ![runId] =
               IF pushed.current_step >= Len(steps)
               THEN ("completed_at" :> now) @@ [pushed EXCEPT !.status = "completed"]
               ELSE pushed]

\* the run store confirmPipelineStep leaves behind
confirmPipelineStep(runId) ==
    IF ~Has(pipelineStateCache, runId) THEN pipelineStateCache
    ELSE LET run == pipelineStateCache[runId]
             steps == tunnelsCache[run.pipeline].pipeline.steps
             completedStep == steps[run.current_step + 1]
             pushed == [run EXCEPT
                          !.steps_completed = Append(@,
                              [step |-> run.current_step + 1,
                               command |-> completedStep.command,
                               confirmed_at |-> now]),
                          !.current_step = @ + 1]
         IN [pipelineStateCache EXCEPT ![runId] =
               IF pushed.current_step >= Len(steps)
               THEN ("completed_at" :> now) @@ [pushed EXCEPT !.status = "completed"]
               ELSE pushed]

\* startPipelineRun: the run store it leaves behind (tunnel and pipeline exist)
startPipelineRun(pipelineName, agentName) ==
    (RunId(now) :>
        [pipeline |-> pipelineName,
         agent |-> agentName,
         started_at |-> now,
         current_step |-> 0,
         status |-> "in_progress",
         steps_completed |-> <<>>])
    @@ pipelineStateCache

\* ------------------------------------------------------- validateTunnel
\* String.prototype.toLowerCase on the tokens of the model
LowerTok(c) == IF c = "A" THEN "a" ELSE IF c = "B" THEN "b" ELSE c
ToLower(str) == [i \in 1..Len(str) |-> LowerTok(str[i])]
\* String.prototype.includes
Contains(str, sub) ==
    \E i \in 0..(Len(str) - Len(sub)) : SubSeq(str, i + 1, i + Len(sub)) = sub

\* req.url.split('?')[0]
RECURSIVE CleanUrl(_)
CleanUrl(url) ==
    IF url = <<>> \/ Head(url) = "?" THEN <<>>
    ELSE <<Head(url)>> \o CleanUrl(Tail(url))

\* checks before the body that let every request on a pipeline tunnel through
ValidateHeadPipelineFirst(method, url, tunnelName) ==
    IF ~Has(tunnelsCache, tunnelName)
    THEN [allowed |-> FALSE, error |-> <<"Invalid Tunnel Config">>]
    ELSE LET tunnel == tunnelsCache[tunnelName] IN
    IF Has(tunnel, "pipeline") THEN [allowed |-> TRUE]
    ELSE IF ~Includes(tunnel.allowed_methods, "*")
       /\ ~Includes(tunnel.allowed_methods, method)
    THEN [allowed |-> FALSE, error |-> <<"Method ", method, " not allowed">>]
    ELSE IF Len(tunnel.allowed_paths) > 0
            /\ ~\E j \in DOMAIN tunnel.allowed_paths :
                   StartsWith(CleanUrl(url), tunnel.allowed_paths[j])
    THEN [allowed |-> FALSE,
          error |-> <<"Path ">> \o CleanUrl(url) \o <<" not allowed">>]
    ELSE [allowed |-> TRUE]

\* the checks validateTunnel makes before it waits for the body:
\* "body" when the body is awaited, else the result it returns
ValidateHead(method, url, tunnelName) ==
    IF ~Has(tunnelsCache, tunnelName)
    THEN [allowed |-> FALSE, error |-> <<"Invalid Tunnel Config">>]
    ELSE LET tunnel == tunnelsCache[tunnelName] IN
    IF ~Includes(tunnel.allowed_methods, "*")
       /\ ~Includes(tunnel.allowed_methods, method)
    THEN [allowed |-> FALSE, error |-> <<"Method ", method, " not allowed">>]
    ELSE IF Len(tunnel.allowed_paths) > 0
            /\ ~\E j \in DOMAIN tunnel.allowed_paths :
                   StartsWith(CleanUrl(url), tunnel.allowed_paths[j])
    THEN [allowed |-> FALSE,
          error |-> <<"Path ">> \o CleanUrl(url) \o <<" not allowed">>]
    ELSE [allowed |-> TRUE]

\* payload.command || payload.url || ''
CommandOf(payload) ==
    IF Has(payload, "command") /\ TruthyStr(payload.command) THEN payload.command
    ELSE IF Has(payload, "url") /\ TruthyStr(payload.url) THEN payload.url
    ELSE <<>>

\* tunnel.pipeline && payload.run_id
PipelineDispatch(tunnel, payload) ==
    HasPipeline(tunnel) /\ Has(payload, "run_id") /\ TruthyStr(payload.run_id)

\* the first forbidden keyword found in the command as it is written
FirstKeywordSameCase(tunnel, command) ==
    LET hits == {j \in DOMAIN tunnel.forbidden_keywords :
                   Contains(command, tunnel.forbidden_keywords[j])}
    IN IF hits = {} THEN 0 ELSE CHOOSE j \in hits : \A k \in hits : j <= k

\* the first forbidden keyword found in the command, 0 if none
FirstKeyword(tunnel, command) ==
    LET hits == {j \in DOMAIN tunnel.forbidden_keywords :
                   Contains(ToLower(command), ToLower(tunnel.forbidden_keywords[j]))}
    IN IF hits = {} THEN 0 ELSE CHOOSE j \in hits : \A k \in hits : j <= k

\* the whitelist test without the space that must follow the allowed command
IsAllowedAnyPrefix(tunnel, command) ==
    \E j \in DOMAIN tunnel.allowed_commands :
        LET cmd == Trim(command)
            allowed == tunnel.allowed_commands[j]
        IN cmd = Trim(allowed) \/ StartsWith(cmd, Trim(allowed))

\* the strict-mode whitelist test on one command
IsAllowed(tunnel, command) ==
    \E j \in DOMAIN tunnel.allowed_commands :
        LET cmd == Trim(command)
            allowed == tunnel.allowed_commands[j]
        IN cmd = Trim(allowed) \/ StartsWith(cmd, Trim(allowed) \o <<WS>>)

\* the 'end' handler of validateTunnel taking an empty whitelist for no
\* whitelist
ValidateBodyEmptyOpen(tunnel, body) ==
    IF ~body.valid
    THEN [allowed |-> FALSE, error |-> <<"Invalid JSON payload">>]
    ELSE LET payload == body.payload
             command == CommandOf(payload)
         IN
    IF PipelineDispatch(tunnel, payload)
    THEN validatePipelineStep(payload.run_id, command)
    ELSE IF tunnel.command_whitelist_mode = "strict"
            /\ Len(tunnel.allowed_commands) > 0
            /\ ~IsAllowed(tunnel, command)
    THEN [allowed |-> FALSE,
          error |-> <<"Command '">> \o command \o <<"' not in whitelist">>]
    ELSE IF FirstKeyword(tunnel, command) # 0
    THEN [allowed |-> FALSE,
          error |-> <<"Forbidden keyword '">>
                    \o tunnel.forbidden_keywords[FirstKeyword(tunnel, command)]
                    \o <<"' detected">>]
    ELSE [allowed |-> TRUE]

\* the 'end' handler of validateTunnel looking for forbidden keywords before
\* the whitelist
ValidateBodyKeywordsFirst(tunnel, body) ==
    IF ~body.valid
    THEN [allowed |-> FALSE, error |-> <<"Invalid JSON payload">>]
    ELSE LET payload == body.payload
             command == CommandOf(payload)
         IN
    IF PipelineDispatch(tunnel, payload)
    THEN validatePipelineStep(payload.run_id, command)
    ELSE IF FirstKeyword(tunnel, command) # 0
    THEN [allowed |-> FALSE,
          error |-> <<"Forbidden keyword '">>
                    \o tunnel.forbidden_keywords[FirstKeyword(tunnel, command)]
                    \o <<"' detected">>]
    ELSE IF tunnel.command_whitelist_mode = "strict"
            /\ Len(tunnel.allowed_commands) = 0
    THEN [allowed |-> FALSE, error |-> <<"No commands allowed in strict mode">>]
    ELSE IF tunnel.command_whitelist_mode = "strict" /\ ~IsAllowed(tunnel, command)
    THEN [allowed |-> FALSE,
          error |-> <<"Command '">> \o command \o <<"' not in whitelist">>]
    ELSE [allowed |-> TRUE]

\* the result of the 'end' handler of validateTunnel, for the tunnel object
\* the request captured on arrival
ValidateBody(tunnel, body) ==
    IF ~body.valid
    THEN [allowed |-> FALSE, error |-> <<"Invalid JSON payload">>]
    ELSE LET payload == body.payload
             command == CommandOf(payload)
         IN
    IF PipelineDispatch(tunnel, payload)
    THEN validatePipelineStep(payload.run_id, command)
    ELSE IF tunnel.command_whitelist_mode = "strict"
            /\ Len(tunnel.allowed_commands) = 0
    THEN [allowed |-> FALSE, error |-> <<"No commands allowed in strict mode">>]
    ELSE IF tunnel.command_whitelist_mode = "strict" /\ ~IsAllowed(tunnel, command)
    THEN [allowed |-> FALSE,
          error |-> <<"Command '">> \o command \o <<"' not in whitelist">>]
    ELSE IF FirstKeyword(tunnel, command) # 0
    THEN [allowed |-> FALSE,
          error |-> <<"Forbidden keyword '">>
                    \o tunnel.forbidden_keywords[FirstKeyword(tunnel, command)]
                    \o <<"' detected">>]
    ELSE [allowed |-> TRUE]

\* the 403 the request handler sends for a denial
Denial(validation, tunnelName, client) ==
    (IF Has(validation, "expected") /\ TruthyStr(validation.expected)
     THEN ("expected_command" :> validation.expected) ELSE EmptyObj)
    @@ [status |-> 403,
        error |-> "Access Denied by Tunnel Policy",
        reason |-> validation.error,
        tunnel |-> tunnelName,
        agent |-> client.name]

\* the 200 the request handler sends for a request that is no pipeline step
Allowed(tunnelName, client) ==
    [status |-> 200, success |-> TRUE,
     message |-> "Request allowed by tunnel policy",
     tunnel |-> tunnelName, agent |-> client.name]

\* ------------------------------------------------------ request inputs
\* Math.random().toString(36).substring(2, 8)
RandomTails == {"x"}
\* `worker_${Date.now()}_${random}`
GenKey(t, r) == <<"worker_", TimeStr(t), "_", r>>
HeaderKeys ==
    {NoKey, KeyOrch, KeyW1, KeyRevoked, KeyUnknown, KeysProp}
    \cup {GenKey(t, r) : t \in 0..MaxClock, r \in RandomTails}

\* the keys requests are sent with in the authentication scenario
AuthKeys == {NoKey, KeyOrch, KeyW1, KeyRevoked, KeyUnknown, GenKey(0, "x")}

Commands == {CmdA, CmdB, <<WS, "a">>}
RunIds == {RunId(t) : t \in 0..MaxClock}
\* request bodies: not JSON, a command without run_id, commands with run_id
Bodies ==
    {[valid |-> FALSE], [valid |-> TRUE, payload |-> [command |-> CmdA]]}
    \cup {[valid |-> TRUE, payload |-> [command |-> c, run_id |-> r]] :
            c \in Commands, r \in RunIds}

Slots == 1..MaxInflight
\* a continuation of an allowed pipeline step is queued behind the running
\* callback: only other body handlers run before it
InWindow == \E i \in Slots : inflight[i].pc = "validated"
FreeSlot == CHOOSE i \in Slots :
                inflight[i].pc = "idle" /\ \A j \in Slots : inflight[j].pc = "idle" => i <= j

\* ---------------------------------------------- startGateway: the server
\* OPTIONS is answered before anything else
Preflight ==
    /\ running /\ ~InWindow
    /\ resp' = [status |-> 200]
    /\ UNCHANGED << running, restarts, sim, make, now, today, tunnelsCache, apiKeysCache,
                    pipelineStateCache, mwApiKeysCache, usageCache,
                    tunnelsFile, apiKeysFile, pipelineStateFile, usageFile, inflight >>

\* GET /status, unauthenticated
Status ==
    /\ running /\ ~InWindow
    /\ resp' =
         [status |-> 200, version |-> "test6",
          tunnels |-> DOMAIN tunnelsCache,
          workers |-> Cardinality({k \in DOMAIN apiKeysCache \ {KeysProp} :
                                     apiKeysCache[k].tier = "worker"}),
          pipeline_runs |->
            [total |-> Cardinality(DOMAIN pipelineStateCache),
             completed |-> Cardinality({r \in DOMAIN pipelineStateCache :
                              pipelineStateCache[r].status = "completed"})]]
    /\ UNCHANGED << running, restarts, sim, make, now, today, tunnelsCache, apiKeysCache,
                    pipelineStateCache, mwApiKeysCache, usageCache,
                    tunnelsFile, apiKeysFile, pipelineStateFile, usageFile, inflight >>

\* the endpoints handleOrchestratorAPI knows
OrchEndpoints ==
    { <<"GET", OrchPrefix \o <<"tunnels">> >>,
      <<"GET", OrchPrefix \o <<"agents">> >>,
      <<"POST", UrlTunnelsCreate>>,
      <<"POST", OrchPrefix \o <<"tunnels", "/", "update">> >>,
      <<"POST", OrchPrefix \o <<"tunnels", "/", "delete">> >>,
      <<"POST", OrchPrefix \o <<"agents", "/", "create">> >>,
      <<"POST", OrchPrefix \o <<"agents", "/", "delete">> >>,
      <<"POST", OrchPrefix \o <<"pipeline", "/", "start">> >>,
      <<"GET", OrchPrefix \o <<"pipeline", "/", "runs">> >>,
      <<"POST", OrchPrefix \o <<"pipeline", "/", "reset">> >> }

\* tier routing that looks at the path only
OrchRouteAnyTier(client, url) == StartsWith(url, OrchPrefix)

\* tier routing that hands every request of an orchestrator to the
\* administrative handler
OrchRouteAllPaths(client, url) == client.tier = "orchestrator"

\* isOrchestrator && req.url.startsWith('/orchestrator/')
OrchRoute(client, url) ==
    client.tier = "orchestrator" /\ StartsWith(url, OrchPrefix)

\* a tunnel name that ignores the caller's binding
TunnelNameOfDefault(client) == PublicViewer

\* req.client.tunnel || 'PublicViewer'
TunnelNameOf(client) == IF Has(client, "tunnel") THEN client.tunnel ELSE PublicViewer

\* any other request, up to the point where validateTunnel waits for the
\* body: authenticate, tier routing, tunnel, method and path checks; the
\* waiting request keeps the fields of req.client that are read later
Request(method, url, apiKey) ==
    /\ running /\ ~InWindow
    /\ method # "OPTIONS" /\ url # UrlStatus
    /\ IF AuthThrows(apiKey) THEN Dies
       ELSE
       LET a == authenticate(apiKey) IN
       /\ AuthEffect(apiKey)
       /\ UNCHANGED << running, restarts, sim, make, now, today, tunnelsCache, apiKeysCache,
                       pipelineStateCache, tunnelsFile, apiKeysFile,
                       pipelineStateFile >>
       /\ IF a.status # 0
          THEN resp' = a /\ UNCHANGED inflight
          ELSE
          LET client == a.client
              tunnelName == TunnelNameOf(client)
              head == ValidateHead(method, url, tunnelName)
          IN
          IF OrchRoute(client, url)
          THEN /\ <<method, url>> \notin OrchEndpoints
               /\ resp' = [status |-> 404, error |-> "Unknown orchestrator endpoint"]
               /\ UNCHANGED inflight
          ELSE IF ~head.allowed
          THEN resp' = Denial(head, tunnelName, client) /\ UNCHANGED inflight
          ELSE IF method \in {"POST", "PUT"}
          THEN /\ \E i \in Slots : inflight[i].pc = "idle"
               /\ inflight' = [inflight EXCEPT ![FreeSlot] =
                     [pc |-> "body", url |-> url,
                      client |-> [apiKey |-> client.apiKey, name |-> client.name,
                                  tier |-> client.tier],
                      tunnelName |-> tunnelName,
                      tunnel |-> tunnelsCache[tunnelName]]]
               /\ resp' = NoResponse
          ELSE resp' = Allowed(tunnelName, client) /\ UNCHANGED inflight

\* the 'end' handler throws a TypeError: the body is the JSON null, whose
\* property command cannot be read, or the command extracted is not a string
\* (body.command names its type when it is not one) and the handler comes to
\* call trim or toLowerCase on it
EndThrows(tunnel, body) ==
    \/ body.json = "null"
    \/ /\ Has(body, "command")
       /\ body.command # "string"
       /\ IF PipelineDispatch(tunnel, body.payload)
          THEN /\ RunLive(body.payload.run_id)
               /\ ~ValidateThrows(body.payload.run_id)
               /\ ~ValidateCoerces(body.payload.run_id)
          ELSE IF tunnel.command_whitelist_mode = "strict"
          THEN Len(tunnel.allowed_commands) > 0
          ELSE Len(tunnel.forbidden_keywords) > 0

\* the 'end' handler of validateTunnel: the body is evaluated; unless it is
\* an allowed pipeline step, the response follows with no further state read
WorkerEnd(i, body) ==
    /\ running
    /\ inflight[i].pc = "body"
    /\ LET q == inflight[i]
           dispatch == body.valid /\ PipelineDispatch(q.tunnel, body.payload)
       IN
       IF \/ Has(body, "json") /\ EndThrows(q.tunnel, body)
          \/ dispatch /\ ValidateThrows(body.payload.run_id)
       THEN Dies
       ELSE
       LET result == ValidateBody(q.tunnel, body)
           cache == IF dispatch THEN AfterValidate(body.payload.run_id)
                    ELSE pipelineStateCache
       IN
       /\ pipelineStateCache' = cache
       /\ pipelineStateFile' = IF cache # pipelineStateCache
                               THEN savePipelineState(cache) ELSE pipelineStateFile
       /\ IF dispatch /\ result.allowed
          THEN /\ inflight' = [inflight EXCEPT ![i] =
                     [pc |-> "validated", url |-> q.url, client |-> q.client,
                      tunnelName |-> q.tunnelName,
                      pipelineRunId |-> body.payload.run_id,
                      command |-> CommandOf(body.payload),
                      validation |-> result]]
               /\ resp' = NoResponse
          ELSE /\ inflight' = [inflight EXCEPT ![i] = NoRequest]
               /\ resp' = IF result.allowed THEN Allowed(q.tunnelName, q.client)
                          ELSE Denial(result, q.tunnelName, q.client)
       /\ UNCHANGED << running, restarts, sim, make, now, today, tunnelsCache, apiKeysCache,
                       mwApiKeysCache, usageCache, tunnelsFile, apiKeysFile,
                       usageFile >>

\* the 200 after confirmPipelineStep that names the step just confirmed as
\* the next one
ConfirmedSameStep(q, cache) ==
    LET run == cache[q.pipelineRunId]
        hasSteps == Has(tunnelsCache, q.tunnelName)
                    /\ HasPipeline(tunnelsCache[q.tunnelName])
        steps == IF hasSteps THEN tunnelsCache[q.tunnelName].pipeline.steps ELSE <<>>
    IN [status |-> 200, success |-> TRUE,
        message |-> <<"Pipeline step confirmed: '">>
                    \o q.validation.step.command \o <<"'">>,
        run_status |-> run.status,
        next_command |->
            IF run.current_step >= 1 /\ run.current_step <= Len(steps)
               /\ TruthyStr(steps[run.current_step].command)
            THEN steps[run.current_step].command ELSE Null,
        steps_remaining |-> Len(steps) - run.current_step]

\* the 200 sent after confirmPipelineStep, computed on the stores it left
Confirmed(q, cache) ==
    LET run == cache[q.pipelineRunId]
        hasSteps == Has(tunnelsCache, q.tunnelName)
                    /\ HasPipeline(tunnelsCache[q.tunnelName])
        steps == IF hasSteps THEN tunnelsCache[q.tunnelName].pipeline.steps ELSE <<>>
    IN [status |-> 200, success |-> TRUE,
        message |-> <<"Pipeline step confirmed: '">>
                    \o q.validation.step.command \o <<"'">>,
        run_status |-> run.status,
        next_command |->
            IF run.current_step < Len(steps)
               /\ TruthyStr(steps[run.current_step + 1].command)
            THEN steps[run.current_step + 1].command ELSE Null,
        steps_remaining |-> Len(steps) - run.current_step]

\* the request is dropped without a response (a rejected promise nobody handles)
Unanswered(i) ==
    /\ inflight' = [inflight EXCEPT ![i] = NoRequest]
    /\ UNCHANGED << running, restarts, sim, make, now, today, tunnelsCache, apiKeysCache,
                    pipelineStateCache, mwApiKeysCache, usageCache,
                    tunnelsFile, apiKeysFile, pipelineStateFile, usageFile >>
    /\ resp' = NoResponse

\* the continuation of the request handler for an allowed pipeline step:
\* confirmPipelineStep, then the response
WorkerRespond(i) ==
    /\ running
    /\ inflight[i].pc = "validated"
    /\ LET q == inflight[i] IN
       IF ConfirmThrows(q.pipelineRunId)
       THEN Dies \/ Unanswered(i)
       ELSE
       LET cache == confirmPipelineStep(q.pipelineRunId) IN
       /\ pipelineStateCache' = cache
       /\ pipelineStateFile' = savePipelineState(cache)
       /\ inflight' = [inflight EXCEPT ![i] = NoRequest]
       /\ resp' = Confirmed(q, cache)
       /\ UNCHANGED << running, restarts, sim, make, now, today, tunnelsCache, apiKeysCache,
                       mwApiKeysCache, usageCache, tunnelsFile, apiKeysFile,
                       usageFile >>

\* ------------------------------------------------------ stop and restart
\* startGateway after the process died: loadTunnels and loadApiKeys exit on
\* a file that does not parse; loadPipelineState starts fresh on one
StartGateway ==
    /\ ~running
    /\ restarts < MaxRestarts
    /\ Parses(tunnelsFile) /\ Parses(apiKeysFile)
    /\ running' = TRUE
    /\ restarts' = restarts + 1
    /\ UNCHANGED << sim, make >>
    /\ tunnelsCache' = Parse(tunnelsFile)
    /\ apiKeysCache' = Parse(apiKeysFile)
    /\ pipelineStateCache' = IF Parses(pipelineStateFile)
                             THEN Parse(pipelineStateFile) ELSE EmptyObj
    /\ UNCHANGED << now, today, mwApiKeysCache, usageCache, tunnelsFile,
                    apiKeysFile, pipelineStateFile, usageFile, inflight >>
    /\ resp' = NoResponse

\* the process is stopped from outside and started again: the module state
\* of gateway.js and middleware.js is lost, startGateway loads the files; the
\* clients of the requests in flight see their connection reset
Restart ==
    /\ running
    /\ restarts < MaxRestarts
    /\ Parses(tunnelsFile) /\ Parses(apiKeysFile)
    /\ restarts' = restarts + 1
    /\ UNCHANGED << sim, make >>
    /\ tunnelsCache' = Parse(tunnelsFile)
    /\ apiKeysCache' = Parse(apiKeysFile)
    /\ pipelineStateCache' = IF Parses(pipelineStateFile)
                             THEN Parse(pipelineStateFile) ELSE EmptyObj
    /\ mwApiKeysCache' = NotLoaded
    /\ usageCache' = EmptyObj
    /\ inflight' = [i \in 1..MaxInflight |-> NoRequest]
    /\ UNCHANGED << running, now, today, tunnelsFile, apiKeysFile,
                    pipelineStateFile, usageFile >>
    /\ resp' = [status |-> 0,
                reset |-> {inflight[i] : i \in {j \in Slots : inflight[j].pc # "idle"}}]

\* ------------------------------------------------------- watched files
\* text that JSON.parse rejects
Unparseable == [ok |-> FALSE]

\* somebody outside the process rewrites auth/tunnels.json
EditTunnels(content) ==
    /\ tunnelsFile # content
    /\ tunnelsFile' = content
    /\ UNCHANGED << running, restarts, sim, make, now, today, tunnelsCache, apiKeysCache,
                    pipelineStateCache, mwApiKeysCache, usageCache, apiKeysFile,
                    pipelineStateFile, usageFile, inflight >>
    /\ resp' = NoResponse

\* somebody outside the process rewrites auth/api_keys.json
EditApiKeys(content) ==
    /\ apiKeysFile # content
    /\ apiKeysFile' = content
    /\ UNCHANGED << running, restarts, sim, make, now, today, tunnelsCache, apiKeysCache,
                    pipelineStateCache, mwApiKeysCache, usageCache, tunnelsFile,
                    pipelineStateFile, usageFile, inflight >>
    /\ resp' = NoResponse

\* the fs.watchFile listener of tunnels.json: loadTunnels, which replaces the
\* registry or ends the process
WatchTunnels ==
    /\ running /\ ~InWindow
    /\ IF Parses(tunnelsFile) THEN tunnelsCache # Parse(tunnelsFile) ELSE TRUE
    /\ IF ~Parses(tunnelsFile) THEN Dies
       ELSE /\ tunnelsCache' = Parse(tunnelsFile)
            /\ UNCHANGED << running, restarts, sim, make, now, today, apiKeysCache,
                            pipelineStateCache, mwApiKeysCache, usageCache,
                            tunnelsFile, apiKeysFile, pipelineStateFile,
                            usageFile, inflight >>
            /\ resp' = NoResponse

\* the fs.watchFile listener of api_keys.json: loadApiKeys
WatchApiKeys ==
    /\ running /\ ~InWindow
    /\ IF Parses(apiKeysFile) THEN apiKeysCache # Parse(apiKeysFile) ELSE TRUE
    /\ IF ~Parses(apiKeysFile) THEN Dies
       ELSE /\ apiKeysCache' = Parse(apiKeysFile)
            /\ UNCHANGED << running, restarts, sim, make, now, today, tunnelsCache,
                            pipelineStateCache, mwApiKeysCache, usageCache,
                            tunnelsFile, apiKeysFile, pipelineStateFile,
                            usageFile, inflight >>
            /\ resp' = NoResponse

\* --------------------------------------------------- handleOrchestratorAPI
\* authenticate admits the request as an orchestrator's
OrchAuth(apiKey) ==
    /\ running /\ ~InWindow
    /\ Admitted(apiKey)
    /\ OrchRoute(authenticate(apiKey).client, OrchPrefix)
    /\ AuthEffect(apiKey)

\* POST /orchestrator/tunnels/create
TunnelsCreate(apiKey, payload) ==
    /\ OrchAuth(apiKey)
    /\ Has(payload, "name")
    /\ tunnelsCache' =
         (payload.name :>
            ((IF Has(payload, "pipeline")
              THEN ("pipeline" :> payload.pipeline) ELSE EmptyObj)
             @@ [description |-> IF Has(payload, "description")
                                 THEN payload.description
                                 ELSE <<"Worker tunnel: ", payload.name>>,
                 allowed_methods |-> IF Has(payload, "allowed_methods")
                                     THEN payload.allowed_methods
                                     ELSE <<"GET", "POST">>,
                 allowed_paths |-> IF Has(payload, "allowed_paths")
                                   THEN payload.allowed_paths ELSE <<>>,
                 forbidden_keywords |-> IF Has(payload, "forbidden_keywords")
                                        THEN payload.forbidden_keywords ELSE <<>>,
                 allowed_commands |-> IF Has(payload, "allowed_commands")
                                      THEN payload.allowed_commands ELSE <<>>,
                 command_whitelist_mode |-> "strict",
                 created_by |-> "orchestrator",
                 created_at |-> now]))
         @@ tunnelsCache
    /\ tunnelsFile' = saveTunnels(tunnelsCache')
    /\ resp' = [status |-> 201, success |-> TRUE, tunnel |-> payload.name,
                config |-> tunnelsCache'[payload.name]]
    /\ UNCHANGED << running, restarts, sim, make, now, today, apiKeysCache, pipelineStateCache,
                    apiKeysFile, pipelineStateFile, inflight >>

\* const { name, ...updates } = payload
\* an update that drops every key it was given
UpdatesNone(payload) == EmptyObj

Updates(payload) == [k \in DOMAIN payload \ {"name"} |-> payload[k]]

\* POST /orchestrator/tunnels/update
TunnelsUpdate(apiKey, payload) ==
    /\ OrchAuth(apiKey)
    /\ IF ~Has(payload, "name") \/ ~Has(tunnelsCache, payload.name)
       THEN /\ resp' = [status |-> 404, error |-> "Tunnel not found"]
            /\ UNCHANGED << tunnelsCache, tunnelsFile >>
       ELSE /\ tunnelsCache' = [tunnelsCache EXCEPT ![payload.name] =
                  ("updated_at" :> now) @@ Updates(payload) @@ @]
            /\ tunnelsFile' = saveTunnels(tunnelsCache')
            /\ resp' = [status |-> 200, success |-> TRUE, tunnel |-> payload.name,
                        config |-> tunnelsCache'[payload.name]]
    /\ UNCHANGED << running, restarts, sim, make, now, today, apiKeysCache, pipelineStateCache,
                    apiKeysFile, pipelineStateFile, inflight >>

\* POST /orchestrator/tunnels/delete
TunnelsDelete(apiKey, name) ==
    /\ OrchAuth(apiKey)
    /\ IF ~Has(tunnelsCache, name)
       THEN /\ resp' = [status |-> 404, error |-> "Tunnel not found"]
            /\ UNCHANGED << tunnelsCache, tunnelsFile >>
       ELSE /\ tunnelsCache' = [n \in DOMAIN tunnelsCache \ {name} |-> tunnelsCache[n]]
            /\ tunnelsFile' = saveTunnels(tunnelsCache')
            /\ resp' = [status |-> 200, success |-> TRUE,
                        message |-> <<"Tunnel ", name, " deleted">>]
    /\ UNCHANGED << running, restarts, sim, make, now, today, apiKeysCache, pipelineStateCache,
                    apiKeysFile, pipelineStateFile, inflight >>

\* bodies of POST /orchestrator/agents/create
AgentPayloads ==
    {[name |-> "agent", tunnel |-> t] : t \in TunnelNames}
    \cup {[name |-> "agent", tunnel |-> "P", dailyLimit |-> WorkerLimit]}

\* POST /orchestrator/agents/create
AgentsCreate(apiKey, payload, random) ==
    /\ OrchAuth(apiKey)
    /\ IF ~Has(tunnelsCache, payload.tunnel)
       THEN /\ resp' = [status |-> 404,
                        error |-> <<"Tunnel '", payload.tunnel, "' not found">>]
            /\ UNCHANGED << apiKeysCache, apiKeysFile >>
       ELSE /\ apiKeysCache' =
                 (GenKey(now, random) :>
                    [name |-> payload.name, tier |-> "worker",
                     tunnel |-> payload.tunnel,
                     dailyLimit |-> IF Has(payload, "dailyLimit")
                                       /\ payload.dailyLimit # 0
                                    THEN payload.dailyLimit ELSE DefaultDailyLimit,
                     createdAt |-> now, createdBy |-> "orchestrator"])
                 @@ apiKeysCache
            /\ apiKeysFile' = saveApiKeys(apiKeysCache')
            /\ resp' = [status |-> 201, success |-> TRUE,
                        apiKey |-> GenKey(now, random),
                        name |-> payload.name, tunnel |-> payload.tunnel]
    /\ UNCHANGED << running, restarts, sim, make, now, today, tunnelsCache, pipelineStateCache,
                    tunnelsFile, pipelineStateFile, inflight >>

\* POST /orchestrator/agents/delete
AgentsDelete(apiKey, target) ==
    /\ OrchAuth(apiKey)
    /\ IF target = NoKey \/ ~Has(apiKeysCache, target)
       THEN /\ resp' = [status |-> 404, error |-> "Agent not found"]
            /\ UNCHANGED << apiKeysCache, apiKeysFile >>
       ELSE /\ apiKeysCache' = [k \in DOMAIN apiKeysCache \ {target} |-> apiKeysCache[k]]
            /\ apiKeysFile' = saveApiKeys(apiKeysCache')
            /\ resp' = [status |-> 200, success |-> TRUE,
                        message |-> <<"Agent ",
                                      IF target = KeysProp THEN "undefined"
                                      ELSE apiKeysCache[target].name,
                                      " deleted">>]
    /\ UNCHANGED << running, restarts, sim, make, now, today, tunnelsCache, pipelineStateCache,
                    tunnelsFile, pipelineStateFile, inflight >>

\* GET /orchestrator/tunnels
TunnelsList(apiKey) ==
    /\ OrchAuth(apiKey)
    /\ resp' = [status |-> 200, tunnels |-> tunnelsCache]
    /\ UNCHANGED << running, restarts, sim, make, now, today, tunnelsCache, apiKeysCache,
                    pipelineStateCache, tunnelsFile, apiKeysFile,
                    pipelineStateFile, inflight >>

\* the number of characters a token of a key stands for
CharLen(tok) ==
    CASE tok = "worker_" -> 7
      [] tok = "orch" -> 4
      [] tok = "keys" -> 4
      [] tok \in {"old", "zzz"} -> 3
      [] tok = "w1" -> 2
      [] OTHER -> 1

\* key.substring(0, n), for keys none of whose tokens lies across the cut
RECURSIVE Substring(_, _)
Substring(key, n) ==
    IF key = <<>> \/ CharLen(Head(key)) > n THEN <<>>
    ELSE <<Head(key)>> \o Substring(Tail(key), n - CharLen(Head(key)))

\* ({ key: key.substring(0, 8) + '...', ...v })
AgentEntry(key, v) == v @@ ("key" :> (Substring(key, 8) \o <<"...">>))

\* Object.entries(...).filter(...).map(...) over a set of keys; the order of
\* the entries is the order the keys were inserted in, which is not kept here
RECURSIVE AgentEntries(_)
AgentEntries(keys) ==
    IF keys = {} THEN <<>>
    ELSE LET k == CHOOSE x \in keys : TRUE
         IN <<AgentEntry(k, apiKeysCache[k])>> \o AgentEntries(keys \ {k})

\* .filter(([_, v]) => v.tier === 'worker')
\* (the object under "keys" has no tier of its own)
WorkerKeys ==
    {k \in DOMAIN apiKeysCache \ {KeysProp} : apiKeysCache[k].tier = "worker"}

\* GET /orchestrator/agents
AgentsList(apiKey) ==
    /\ OrchAuth(apiKey)
    /\ resp' = [status |-> 200, agents |-> AgentEntries(WorkerKeys)]
    /\ UNCHANGED << running, restarts, sim, make, now, today, tunnelsCache, apiKeysCache,
                    pipelineStateCache, tunnelsFile, apiKeysFile,
                    pipelineStateFile, inflight >>

\* steps[0].command throws: the tunnel has a pipeline whose steps is missing
\* or empty
StartThrows(payload) ==
    /\ Has(tunnelsCache, payload.pipeline)
    /\ HasPipeline(tunnelsCache[payload.pipeline])
    /\ LET pl == tunnelsCache[payload.pipeline].pipeline IN
       ~Has(pl, "steps") \/ Len(pl.steps) = 0

\* POST /orchestrator/pipeline/start
\* When steps[0].command throws, startPipelineRun has already saved the run
\* and res.writeHead(201) has been called. The .catch handler then calls
\* res.writeHead(400): a runtime that accepts a second writeHead answers 400
\* "Invalid JSON"; one that throws on it leaves a rejected promise nobody
\* handles, which either drops the request without a response or ends the
\* process.
PipelineStart(apiKey, payload) ==
    /\ running /\ ~InWindow
    /\ Admitted(apiKey)
    /\ OrchRoute(authenticate(apiKey).client, OrchPrefix)
    /\ usageFile' = IF incrementUsage(apiKey)[apiKey][today] % SaveEvery = 0
                    THEN Stringify(incrementUsage(apiKey))
                    ELSE usageFile
    /\ UNCHANGED << restarts, sim, make, now, today, tunnelsFile, apiKeysFile >>
    /\ IF StartThrows(payload)
       THEN LET cache == startPipelineRun(payload.pipeline,
                                          IF Has(payload, "agent")
                                          THEN payload.agent ELSE "orchestrator")
            IN
            /\ pipelineStateFile' = savePipelineState(cache)
            /\ \/ /\ resp' \in {[status |-> 400, error |-> <<"Invalid JSON">>],
                                NoResponse}
                  /\ pipelineStateCache' = cache
                  /\ mwApiKeysCache' = [loaded |-> TRUE, data |-> MwKeys]
                  /\ usageCache' = incrementUsage(apiKey)
                  /\ UNCHANGED << running, tunnelsCache, apiKeysCache, inflight >>
               \/ /\ resp' = NoResponse
                  /\ running' = FALSE
                  /\ tunnelsCache' = EmptyObj
                  /\ apiKeysCache' = EmptyObj
                  /\ pipelineStateCache' = EmptyObj
                  /\ mwApiKeysCache' = NotLoaded
                  /\ usageCache' = EmptyObj
                  /\ inflight' = [i \in 1..MaxInflight |-> NoRequest]
       ELSE
       /\ mwApiKeysCache' = [loaded |-> TRUE, data |-> MwKeys]
       /\ usageCache' = incrementUsage(apiKey)
       /\ UNCHANGED << running, tunnelsCache, apiKeysCache, inflight >>
       /\ IF ~Has(tunnelsCache, payload.pipeline)
          THEN /\ resp' = [status |-> 404,
                           error |-> <<"Pipeline tunnel '", payload.pipeline, "' not found">>]
               /\ UNCHANGED << pipelineStateCache, pipelineStateFile >>
          ELSE IF ~HasPipeline(tunnelsCache[payload.pipeline])
          THEN /\ resp' = [status |-> 400,
                           error |-> <<"Tunnel '", payload.pipeline,
                                       "' has no pipeline definition. Use 'pipeline' key in tunnel config.">>]
               /\ UNCHANGED << pipelineStateCache, pipelineStateFile >>
          ELSE LET pl == tunnelsCache[payload.pipeline].pipeline IN
               /\ pipelineStateCache' =
                    startPipelineRun(payload.pipeline,
                                     IF Has(payload, "agent") THEN payload.agent
                                     ELSE "orchestrator")
               /\ pipelineStateFile' = savePipelineState(pipelineStateCache')
               /\ resp' = [status |-> 201, success |-> TRUE,
                           run_id |-> RunId(now),
                           message |-> <<"Pipeline started. First step: '">>
                                       \o pl.steps[1].command \o <<"'">>,
                           total_steps |-> Len(pl.steps),
                           next_command |-> pl.steps[1].command]

\* POST /orchestrator/pipeline/reset
PipelineReset(apiKey, runId) ==
    /\ OrchAuth(apiKey)
    /\ IF ~Has(pipelineStateCache, runId)
       THEN /\ resp' = [status |-> 404, error |-> "Run not found"]
            /\ UNCHANGED << pipelineStateCache, pipelineStateFile >>
       ELSE /\ pipelineStateCache' = [pipelineStateCache EXCEPT ![runId] =
                  ("aborted_at" :> now) @@ [@ EXCEPT !.status = "aborted"]]
            /\ pipelineStateFile' = savePipelineState(pipelineStateCache')
            /\ resp' = [status |-> 200, success |-> TRUE,
                        message |-> <<"Run ">> \o runId \o <<" aborted">>]
    /\ UNCHANGED << running, restarts, sim, make, now, today, tunnelsCache, apiKeysCache,
                    tunnelsFile, apiKeysFile, inflight >>

\* ----------------------------------------------------------------- system
\* the pipeline workflow on one clock reading: the orchestrator administers
\* tunnel P and its runs, the worker bound to P submits steps
InitPipe == Init /\ apiKeysFile = Stringify(KeysNested)

NextPipe ==
    \/ PipelineStart(KeyOrch, [pipeline |-> "P"])
    \/ \E r \in RunIds : PipelineReset(KeyOrch, r)
    \/ TunnelsUpdate(KeyOrch, [name |-> "P", pipeline |-> [steps |-> StepsBA]])
    \/ TunnelsDelete(KeyOrch, "P")
    \/ TunnelsCreate(KeyOrch, [name |-> "P", pipeline |-> [steps |-> StepsA]])
    \/ Request("POST", UrlRoot, KeyW1)
    \/ \E i \in Slots, b \in Bodies : WorkerEnd(i, b)
    \/ \E i \in Slots : WorkerRespond(i)

SpecPipe == InitPipe /\ [][NextPipe]_vars

\* runs started at the same and at different clock readings
NextStart ==
    \/ Tick
    \/ PipelineStart(KeyOrch, [pipeline |-> "P"])
    \/ Request("POST", UrlRoot, KeyW1)
    \/ \E i \in Slots, r \in RunIds :
          WorkerEnd(i, [valid |-> TRUE, payload |-> [command |-> CmdA, run_id |-> r]])
    \/ \E i \in Slots : WorkerRespond(i)

SpecStart == InitPipe /\ [][NextStart]_vars

\* runs on a pipeline tunnel that nobody modifies, resets or restarts
NextHappy ==
    \/ Tick
    \/ PipelineStart(KeyOrch, [pipeline |-> "P"])
    \/ Request("POST", UrlRoot, KeyW1)
    \/ \E i \in Slots, b \in Bodies : WorkerEnd(i, b)
    \/ \E i \in Slots : WorkerRespond(i)

SpecHappy == InitPipe /\ [][NextHappy]_vars

\* the policy of tunnel P under change, and worker requests evaluated on it
UrlX == <<"/", "x", "?", "q">>
PolicyCommands ==
    {CmdA, CmdB, <<"c">>, <<WS, "a", WS>>, <<"a", WS, "b">>, <<"a", "b">>,
     <<"A", WS, "b">>}
PolicyBodies ==
    {[valid |-> FALSE],
     [valid |-> TRUE, payload |-> [command |-> CmdA, run_id |-> RunId(0)]]}
    \cup {[valid |-> TRUE, payload |-> [command |-> c]] : c \in PolicyCommands}
PolicyUpdates ==
    {[name |-> "P", allowed_commands |-> << <<WS, "a", WS>> >>,
      forbidden_keywords |-> << <<"B">>, <<"a", WS>> >>],
     [name |-> "P", command_whitelist_mode |-> "lax"],
     [name |-> "P", allowed_paths |-> << <<"/", "x">> >>,
      allowed_methods |-> <<"GET">>]}

NextPolicy ==
    \/ \E u \in {UrlRoot, UrlX} : Request("GET", u, KeyW1)
    \/ Request("POST", UrlRoot, KeyW1)
    \/ \E i \in Slots, b \in PolicyBodies : WorkerEnd(i, b)
    \/ \E p \in PolicyUpdates : TunnelsUpdate(KeyOrch, p)
    \/ TunnelsDelete(KeyOrch, "P")
    \/ PipelineStart(KeyOrch, [pipeline |-> "P"])
    \/ \E i \in Slots : WorkerRespond(i)

SpecPolicy == InitPipe /\ [][NextPolicy]_vars

\* bodies evaluated on P while runs start and advance and the whitelist and
\* the keywords of P are set once
NextEval ==
    \/ Request("POST", UrlRoot, KeyW1)
    \/ \E i \in Slots, b \in PolicyBodies : WorkerEnd(i, b)
    \/ \E i \in Slots : WorkerRespond(i)
    \/ PipelineStart(KeyOrch, [pipeline |-> "P"])
    \/ TunnelsUpdate(KeyOrch, [name |-> "P",
                               allowed_commands |-> << <<WS, "a", WS>> >>,
                               forbidden_keywords |-> << <<"B">>, <<"a", WS>> >>])

SpecEval == InitPipe /\ [][NextEval]_vars

\* the pipeline workflow with stops and restarts of the process
NextCrash ==
    \/ PipelineStart(KeyOrch, [pipeline |-> "P"])
    \/ TunnelsUpdate(KeyOrch, [name |-> "P", pipeline |-> [steps |-> StepsA]])
    \/ Request("POST", UrlRoot, KeyW1)
    \/ \E i \in Slots, b \in Bodies : WorkerEnd(i, b)
    \/ \E i \in Slots : WorkerRespond(i)
    \/ Restart
    \/ StartGateway

SpecCrash == InitPipe /\ [][NextCrash]_vars

\* authentication: requests with every kind of key, credentials issued and
\* deleted by the orchestrator, restarts
NextAuth ==
    \/ Preflight
    \/ Status
    \/ \E k \in AuthKeys : Request("GET", UrlRoot, k)
    \/ \E r \in RandomTails :
          AgentsCreate(KeyOrch, [name |-> "agent", tunnel |-> "P", dailyLimit |-> WorkerLimit], r)
    \/ \E t \in {KeyW1, KeyUnknown, GenKey(0, "x")} : AgentsDelete(KeyOrch, t)
    \/ Restart

SpecAuth == Init /\ [][NextAuth]_vars

\* usage accounting over day changes and restarts
NextRate ==
    \/ NextDay
    \/ \E k \in {NoKey, KeyOrch, KeyW1, KeyRevoked} : Request("GET", UrlRoot, k)
    \/ Restart

SpecRate == InitPipe /\ [][NextRate]_vars

\* workers and the orchestrator send requests to administrative and other
\* paths
GateKeys == {KeyOrch, KeyW1, KeyRevoked}
GateBodies == {[valid |-> FALSE], [valid |-> TRUE, payload |-> [command |-> CmdA]],
               [valid |-> TRUE, payload |-> [name |-> "Q", command |-> CmdA]]}
GatePayloads == {[name |-> "R"], [name |-> "P", allowed_commands |-> <<CmdA>>]}

NextGate ==
    \/ \E m \in {"GET", "POST"}, u \in {UrlRoot, UrlTunnelsCreate}, k \in GateKeys :
          Request(m, u, k)
    \/ \E i \in Slots, b \in GateBodies : WorkerEnd(i, b)
    \/ \E k \in GateKeys, p \in GatePayloads : TunnelsCreate(k, p)
    \/ \E k \in GateKeys, t \in {KeyW1} : AgentsDelete(k, t)

SpecGate == Init /\ [][NextGate]_vars

\* tunnels and agents are created and the listings are read
RoundPayloads ==
    {[name |-> "R", allowed_methods |-> <<"GET">>,
      allowed_paths |-> << <<"/", "x">> >>, allowed_commands |-> <<CmdA>>,
      forbidden_keywords |-> <<CmdB>>, pipeline |-> [steps |-> StepsA]],
     [name |-> "R", command_whitelist_mode |-> "lax"],
     [name |-> "P", allowed_commands |-> <<CmdA>>, command_whitelist_mode |-> "strict"]}
RoundAgents == {[name |-> "agent", tunnel |-> t] : t \in {"P", "R"}}

NextRound ==
    \/ \E p \in RoundPayloads : TunnelsCreate(KeyOrch, p)
    \/ TunnelsList(KeyOrch)
    \/ \E p \in RoundAgents, r \in RandomTails : AgentsCreate(KeyOrch, p, r)
    \/ AgentsList(KeyOrch)
    \/ NextDay

SpecRound == Init /\ [][NextRound]_vars

\* the watched files are rewritten from outside while the gateway serves
WatchTunnelFiles == {Unparseable, Stringify(InitTunnels),
                     Stringify([n \in {"Q"} |-> InitTunnels[n]])}
WatchKeyFiles == {Unparseable, Stringify(KeysNested), Stringify(KeysBoth)}

NextWatch ==
    \/ \E c \in WatchTunnelFiles : EditTunnels(c)
    \/ \E c \in WatchKeyFiles : EditApiKeys(c)
    \/ WatchTunnels
    \/ WatchApiKeys
    \/ StartGateway
    \/ TunnelsCreate(KeyOrch, [name |-> "R"])
    \/ \E t \in {KeyW1} : AgentsDelete(KeyOrch, t)
    \/ Request("GET", UrlRoot, KeyW1)

SpecWatch == Init /\ [][NextWatch]_vars

\* every mutation the orchestrator and a worker can make
NextPersist ==
    \/ TunnelsCreate(KeyOrch, [name |-> "R", pipeline |-> [steps |-> StepsA]])
    \/ TunnelsUpdate(KeyOrch, [name |-> "P", pipeline |-> [steps |-> StepsA]])
    \/ \E n \in {"Q", "R"} : TunnelsDelete(KeyOrch, n)
    \/ \E r \in RandomTails : AgentsCreate(KeyOrch, [name |-> "agent", tunnel |-> "Q"], r)
    \/ \E t \in {KeyW1, GenKey(0, "x")} : AgentsDelete(KeyOrch, t)
    \/ PipelineStart(KeyOrch, [pipeline |-> "P"])
    \/ PipelineReset(KeyOrch, RunId(0))
    \/ Request("POST", UrlRoot, KeyW1)
    \/ \E i \in Slots :
          WorkerEnd(i, [valid |-> TRUE,
                        payload |-> [command |-> CmdA, run_id |-> RunId(0)]])
    \/ \E i \in Slots : WorkerRespond(i)

SpecPersist == InitPipe /\ [][NextPersist]_vars

\* starts that pipeline/start must refuse: an unknown tunnel Z, the tunnel Q
\* without a pipeline, and P after its pipeline was replaced by one whose
\* steps is empty or missing
BadPipelines == {[steps |-> <<>>], EmptyObj}
StartPayloads == {[pipeline |-> n] : n \in {"P", "Q", "Z"}}

NextBadStart ==
    \/ \E pl \in BadPipelines \cup {[steps |-> StepsA]} :
          TunnelsUpdate(KeyOrch, [name |-> "P", pipeline |-> pl])
    \/ \E p \in StartPayloads : PipelineStart(KeyOrch, p)
    \/ Tick
    \/ NextDay
    \/ StartGateway

SpecBadStart == InitPipe /\ [][NextBadStart]_vars

\* denials of every kind for the worker bound to P: P's pipeline may get a
\* first step whose command is the empty string, P may be limited to POST,
\* deleted, or made again without a pipeline and with a whitelist and a keyword
StepsEmptyA == << [command |-> <<>>], [command |-> CmdA] >>

NextExpect ==
    \/ PipelineStart(KeyOrch, [pipeline |-> "P"])
    \/ PipelineReset(KeyOrch, RunId(0))
    \/ TunnelsUpdate(KeyOrch, [name |-> "P", pipeline |-> [steps |-> StepsEmptyA],
                               allowed_methods |-> <<"POST">>])
    \/ TunnelsDelete(KeyOrch, "P")
    \/ TunnelsCreate(KeyOrch, [name |-> "P", allowed_commands |-> <<CmdA>>,
                               forbidden_keywords |-> <<CmdA>>,
                               allowed_paths |-> <<UrlRoot>>])
    \/ \E m \in {"GET", "POST"}, u \in {UrlRoot, <<"x">>} : Request(m, u, KeyW1)
    \/ \E i \in Slots, b \in Bodies : WorkerEnd(i, b)
    \/ \E i \in Slots : WorkerRespond(i)

SpecExpect == InitPipe /\ [][NextExpect]_vars

\* a worker with a daily limit above the save interval that has already sent
\* requests today: the gateway as it is after n requests of that worker, the
\* usage file as saveUsage wrote it at the last multiple of SaveEvery
BulkLimit == 150
BulkCounts == {SaveEvery - 1, SaveEvery, BulkLimit - 1, BulkLimit}
BulkKeys ==
    (KeysProp :> ((KeyOrch :> OrchCred)
                  @@ (KeyW1 :> [WorkerCred("w1", "P", TRUE)
                                  EXCEPT !.dailyLimit = BulkLimit])))
UsageAfter(n) == (KeyW1 :> (0 :> n))

InitBulk ==
    /\ running = TRUE
    /\ now = 0
    /\ today = 0
    /\ tunnelsFile = Stringify(InitTunnels)
    /\ tunnelsCache = InitTunnels
    /\ apiKeysFile = Stringify(BulkKeys)
    /\ apiKeysCache = BulkKeys
    /\ pipelineStateCache = EmptyObj
    /\ pipelineStateFile = Stringify(EmptyObj)
    /\ mwApiKeysCache = [loaded |-> TRUE, data |-> BulkKeys]
    /\ \E n \in BulkCounts :
          /\ usageCache = UsageAfter(n)
          /\ usageFile = IF n < SaveEvery THEN Stringify(EmptyObj)
                         ELSE Stringify(UsageAfter(SaveEvery))
    /\ inflight = [i \in 1..MaxInflight |-> NoRequest]
    /\ restarts = 0
    /\ sim = NoSim
    /\ make = NoMake
    /\ resp = NoResponse

NextBulk ==
    \/ Request("GET", UrlRoot, KeyW1)
    \/ Restart

SpecBulk == InitBulk /\ [][NextBulk]_vars

\* step submissions on the pipeline tunnel P while the orchestrator limits
\* its methods and its paths
GuardMethods == {"GET", "POST"}
GuardUrls == {UrlRoot, UrlX}
GuardUpdates ==
    {[name |-> "P", allowed_methods |-> <<"GET">>],
     [name |-> "P", allowed_methods |-> <<"*">>,
      allowed_paths |-> << <<"/", "x">> >>]}
GuardBodies ==
    {[valid |-> TRUE, payload |-> [command |-> c, run_id |-> RunId(0)]] :
        c \in {CmdA, CmdB}}

NextGuard ==
    \/ PipelineStart(KeyOrch, [pipeline |-> "P"])
    \/ \E p \in GuardUpdates : TunnelsUpdate(KeyOrch, p)
    \/ \E m \in GuardMethods, u \in GuardUrls : Request(m, u, KeyW1)
    \/ \E i \in Slots, b \in GuardBodies : WorkerEnd(i, b)
    \/ \E i \in Slots : WorkerRespond(i)

SpecGuard == InitPipe /\ [][NextGuard]_vars

\* a run on P while P is deleted, made again without a pipeline (any command
\* a allowed), or made again with a pipeline; a second worker is bound to the
\* pipeline tunnel S
VanishKeys ==
    (KeysProp :> (InitKeys @@ (<<"w2">> :> WorkerCred("w2", "S", TRUE))))
VanishTunnels == InitTunnels @@ ("S" :> InitTunnels["P"])
VanishCreates ==
    {[name |-> "P", allowed_commands |-> <<CmdA>>],
     [name |-> "P", pipeline |-> [steps |-> StepsAB]]}
VanishBodies ==
    {[valid |-> TRUE, payload |-> [command |-> CmdA, run_id |-> RunId(0)]]}

InitVanish ==
    /\ running = TRUE
    /\ now = 0
    /\ today = 0
    /\ tunnelsFile = Stringify(VanishTunnels)
    /\ tunnelsCache = VanishTunnels
    /\ apiKeysFile = Stringify(VanishKeys)
    /\ apiKeysCache = VanishKeys
    /\ pipelineStateCache = EmptyObj
    /\ pipelineStateFile = Stringify(EmptyObj)
    /\ mwApiKeysCache = NotLoaded
    /\ usageCache = EmptyObj
    /\ usageFile = Stringify(EmptyObj)
    /\ inflight = [i \in 1..MaxInflight |-> NoRequest]
    /\ restarts = 0
    /\ sim = NoSim
    /\ make = NoMake
    /\ resp = NoResponse

NextVanish ==
    \/ PipelineStart(KeyOrch, [pipeline |-> "P"])
    \/ TunnelsDelete(KeyOrch, "P")
    \/ \E p \in VanishCreates : TunnelsCreate(KeyOrch, p)
    \/ \E k \in {KeyW1, <<"w2">>} : Request("POST", UrlRoot, k)
    \/ \E i \in Slots, b \in VanishBodies : WorkerEnd(i, b)
    \/ \E i \in Slots : WorkerRespond(i)

SpecVanish == InitVanish /\ [][NextVanish]_vars

\* a run on P submitted to by the worker of P and by a worker bound to
\* another pipeline tunnel, S, whose steps are b then a
CrossTunnels == InitTunnels @@ ("S" :> WithPipeline(InitTunnels["P"], StepsBA))

InitCross ==
    /\ running = TRUE
    /\ now = 0
    /\ today = 0
    /\ tunnelsFile = Stringify(CrossTunnels)
    /\ tunnelsCache = CrossTunnels
    /\ apiKeysFile = Stringify(VanishKeys)
    /\ apiKeysCache = VanishKeys
    /\ pipelineStateCache = EmptyObj
    /\ pipelineStateFile = Stringify(EmptyObj)
    /\ mwApiKeysCache = NotLoaded
    /\ usageCache = EmptyObj
    /\ usageFile = Stringify(EmptyObj)
    /\ inflight = [i \in 1..MaxInflight |-> NoRequest]
    /\ restarts = 0
    /\ sim = NoSim
    /\ make = NoMake
    /\ resp = NoResponse

NextCross ==
    \/ PipelineStart(KeyOrch, [pipeline |-> "P"])
    \/ \E k \in {KeyW1, <<"w2">>} : Request("POST", UrlRoot, k)
    \/ \E i \in Slots, c \in {CmdA, CmdB} :
          WorkerEnd(i, [valid |-> TRUE,
                        payload |-> [command |-> c, run_id |-> RunId(0)]])
    \/ \E i \in Slots : WorkerRespond(i)

SpecCross == InitCross /\ [][NextCross]_vars

\* bodies that are valid JSON of every kind: null, a number and an array
\* (none has a property command, url or run_id), and objects whose command
\* is a string or the number 5, with and without the run_id of a run on P
TypedBodies ==
    {[valid |-> TRUE, json |-> j, payload |-> EmptyObj] :
        j \in {"null", "number", "array"}}
    \cup {[valid |-> TRUE, json |-> "object", payload |-> [command |-> CmdA]],
          [valid |-> TRUE, json |-> "object",
           payload |-> [command |-> CmdA, run_id |-> RunId(0)]],
          [valid |-> TRUE, json |-> "object", command |-> "number",
           payload |-> EmptyObj],
          [valid |-> TRUE, json |-> "object", command |-> "number",
           payload |-> [run_id |-> RunId(0)]]}

NextTyped ==
    \/ PipelineStart(KeyOrch, [pipeline |-> "P"])
    \/ TunnelsUpdate(KeyOrch, [name |-> "P", allowed_commands |-> <<CmdA>>])
    \/ Request("POST", UrlRoot, KeyW1)
    \/ \E i \in Slots, b \in TypedBodies : WorkerEnd(i, b)
    \/ \E i \in Slots : WorkerRespond(i)
    \/ Restart

SpecTyped == InitPipe /\ [][NextTyped]_vars

\* every mutation of the orchestrator, on existing and on new entries
FrameTunnels ==
    {[name |-> "P", allowed_commands |-> <<CmdA>>, pipeline |-> [steps |-> StepsBA]],
     [name |-> "Z", pipeline |-> [steps |-> StepsA]]}
FrameTargets == {KeyW1, KeysProp, GenKey(0, "x")}

NextFrame ==
    \/ Tick
    \/ \E p \in FrameTunnels : TunnelsCreate(KeyOrch, p)
    \/ \E p \in FrameTunnels : TunnelsUpdate(KeyOrch, p)
    \/ TunnelsDelete(KeyOrch, "Z")
    \/ AgentsCreate(KeyOrch, [name |-> "agent", tunnel |-> "Q"], "x")
    \/ \E t \in FrameTargets : AgentsDelete(KeyOrch, t)
    \/ PipelineStart(KeyOrch, [pipeline |-> "P"])
    \/ \E r \in RunIds : PipelineReset(KeyOrch, r)

SpecFrame == Init /\ [][NextFrame]_vars

\* the orchestrator sends requests to administrative and to other paths,
\* before and after a tunnel named PublicViewer exists
TierUrls == {UrlRoot, UrlTunnelsCreate, OrchPrefix \o <<"nope">>}
TierPayloads ==
    {[name |-> PublicViewer, allowed_commands |-> <<c>>] : c \in {CmdA, CmdB}}

NextTier ==
    \/ \E m \in {"GET", "POST"}, u \in TierUrls : Request(m, u, KeyOrch)
    \/ \E i \in Slots, b \in GateBodies : WorkerEnd(i, b)
    \/ \E p \in TierPayloads : TunnelsCreate(KeyOrch, p)
    \/ TunnelsList(KeyOrch)
    \/ TunnelsDelete(KeyOrch, PublicViewer)
    \/ Tick

SpecTier == InitPipe /\ [][NextTier]_vars

\* the worker of P sends requests while P is deleted, made again with other
\* methods, and the gateway is restarted
NextResolve ==
    \/ TunnelsDelete(KeyOrch, "P")
    \/ \E ms \in {<<"GET">>, <<"POST">>} :
          TunnelsCreate(KeyOrch, [name |-> "P", allowed_methods |-> ms,
                                  allowed_commands |-> <<CmdA>>])
    \/ \E m \in {"GET", "POST"} : Request(m, UrlRoot, KeyW1)
    \/ \E i \in Slots, c \in {CmdA, CmdB} :
          WorkerEnd(i, [valid |-> TRUE, payload |-> [command |-> c]])
    \/ Restart

SpecResolve == InitPipe /\ [][NextResolve]_vars

\* bodies with and without command and url, the empty command included, on
\* P once it lists the command a
ExtractPayloads ==
    {[command |-> <<>>, url |-> CmdA], [command |-> CmdA, url |-> CmdB],
     [command |-> CmdB, url |-> CmdA], [url |-> CmdA], [url |-> CmdB],
     [command |-> <<>>], EmptyObj}

NextExtract ==
    \/ TunnelsUpdate(KeyOrch, [name |-> "P", allowed_commands |-> <<CmdA>>])
    \/ Request("POST", UrlRoot, KeyW1)
    \/ \E i \in Slots, p \in ExtractPayloads :
          WorkerEnd(i, [valid |-> TRUE, payload |-> p])
    \/ NextDay

SpecExtract == InitPipe /\ [][NextExtract]_vars

\* updates of P and Q that replace a key, add one, carry their own
\* updated_at, and one of a tunnel Z that does not exist
MergePayloads ==
    {[name |-> "P", allowed_commands |-> <<CmdA>>],
     [name |-> "Q", allowed_commands |-> <<>>, pipeline |-> [steps |-> StepsA]],
     [name |-> "P", updated_at |-> 99, allowed_paths |-> <<UrlRoot>>],
     [name |-> "Z", allowed_commands |-> <<CmdA>>]}

NextMerge ==
    \/ \E p \in MergePayloads : TunnelsUpdate(KeyOrch, p)
    \/ Tick
    \/ NextDay

SpecMerge == InitPipe /\ [][NextMerge]_vars

\* requests without a key, with an unknown, a revoked, the worker's and the
\* orchestrator's key, up to and beyond the daily limits
NextCount ==
    \/ \E k \in {NoKey, KeyUnknown, KeyRevoked, KeyW1, KeyOrch} :
          Request("GET", UrlRoot, k)
    \/ NextDay

SpecCount == InitPipe /\ [][NextCount]_vars

\* ============================================================== claims
\* the pipeline steps of the tunnel a run names, <<>> when there are none
StepsOf(run) ==
    IF Has(tunnelsCache, run.pipeline)
       /\ HasPipeline(tunnelsCache[run.pipeline])
       /\ Has(tunnelsCache[run.pipeline].pipeline, "steps")
    THEN tunnelsCache[run.pipeline].pipeline.steps
    ELSE <<>>

\* C1 as stated: in every state the commands in steps_completed are, in
\* order, the first commands of the pipeline steps of the run's tunnel, and
\* no two entries carry the same step number.
SequenceIntegrity ==
    \A r \in DOMAIN pipelineStateCache :
        LET run == pipelineStateCache[r]
            done == run.steps_completed
        IN /\ Len(done) <= Len(StepsOf(run))
           /\ \A n \in DOMAIN done : done[n].command = StepsOf(run)[n].command
           /\ \A m, n \in DOMAIN done : m # n => done[m].step # done[n].step

\* entry n of steps_completed carries step number n
StepNumbersInOrder ==
    \A r \in DOMAIN pipelineStateCache :
        \A n \in DOMAIN pipelineStateCache[r].steps_completed :
            pipelineStateCache[r].steps_completed[n].step = n

\* a step changes steps_completed of a run only by appending one entry that
\* holds the command found at current_step in the tunnel's pipeline at that
\* moment, or by emptying it (a new start under the same id)
ConfirmRecordsExpected ==
    \A r \in DOMAIN pipelineStateCache \cap DOMAIN pipelineStateCache' :
        LET run == pipelineStateCache[r]
            done == run.steps_completed
            after == pipelineStateCache'[r].steps_completed
        IN \/ after = done
           \/ after = <<>>
           \/ /\ run.current_step < Len(StepsOf(run))
              /\ Len(after) = Len(done) + 1
              /\ SubSeq(after, 1, Len(done)) = done
              /\ after[Len(after)].command =
                    StepsOf(run)[run.current_step + 1].command

\* C1 amended: the entries of steps_completed carry the step numbers
\* 1, 2, ... in order, so no two share a number, and every entry holds the
\* command that stood at the run's current_step in the tunnel's pipeline
\* when it was confirmed; a later tunnel update, delete or re-create can
\* make the recorded commands differ from the tunnel's present steps.
SequenceIntegrityAmended ==
    []StepNumbersInOrder /\ [][ConfirmRecordsExpected]_vars

\* C1 witness: a run with two confirmed steps whose tunnel was updated since
SequenceIntegrityWitness ==
    \E r \in DOMAIN pipelineStateCache :
        /\ Len(pipelineStateCache[r].steps_completed) = 2
        /\ Has(tunnelsCache, "P")
        /\ Has(tunnelsCache["P"], "updated_at")

\* the body b of request i is dispatched to the pipeline state machine
Submission(i, b) ==
    /\ inflight[i].pc = "body"
    /\ b.valid
    /\ PipelineDispatch(inflight[i].tunnel, b.payload)

\* submission of a command that is not the one expected at current_step of
\* an in-progress run
WrongStep(i, b) ==
    /\ Submission(i, b)
    /\ Has(pipelineStateCache, b.payload.run_id)
    /\ LET run == pipelineStateCache[b.payload.run_id] IN
       /\ run.status = "in_progress"
       /\ run.current_step < Len(StepsOf(run))
       /\ Trim(CommandOf(b.payload)) #
             Trim(StepsOf(run)[run.current_step + 1].command)

\* C2: a submission for an in-progress run at current_step = k whose trimmed
\* command differs from the trimmed command of step k is denied (403), and
\* the run store, in memory and on disk, is unchanged by it.
NoSkip ==
    [][\A i \in Slots, b \in Bodies :
          (WrongStep(i, b) /\ WorkerEnd(i, b)) =>
             /\ resp'.status = 403
             /\ inflight'[i].pc = "idle"
             /\ pipelineStateCache' = pipelineStateCache
             /\ pipelineStateFile' = pipelineStateFile]_vars

\* C2 witness: with step 1 confirmed, a submission was denied with the
\* command of step 2 named as the expected one
NoSkipWitness ==
    /\ resp.status = 403
    /\ Has(resp, "expected_command")
    /\ resp.expected_command = CmdB
    /\ \E r \in DOMAIN pipelineStateCache :
          pipelineStateCache[r].current_step = 1

\* C3 as stated: once a run is completed, aborted or failed, every later
\* submission for it is denied and the run is left unchanged; no submission
\* advances an aborted run.
Terminality ==
    [][/\ \A i \in Slots, b \in Bodies :
            (/\ Submission(i, b)
             /\ Has(pipelineStateCache, b.payload.run_id)
             /\ pipelineStateCache[b.payload.run_id].status
                   \in {"completed", "aborted", "failed"}
             /\ WorkerEnd(i, b)) =>
               /\ resp'.status = 403
               /\ pipelineStateCache' = pipelineStateCache
       /\ \A r \in DOMAIN pipelineStateCache \cap DOMAIN pipelineStateCache' :
            pipelineStateCache[r].status = "aborted" =>
               pipelineStateCache'[r].current_step = pipelineStateCache[r].current_step
      ]_vars

\* C4 as stated: a confirmation advances the run from the step the request
\* was validated against, so of two requests validated at step k only one
\* advances the run and step k+1 is never recorded without a validation
\* against current_step = k+1.
AtMostOneAdvance ==
    [][\A i \in Slots :
          (inflight[i].pc = "validated" /\ WorkerRespond(i)
           /\ pipelineStateCache' # pipelineStateCache) =>
             pipelineStateCache[inflight[i].pipelineRunId].current_step
                = inflight[i].validation.stepIndex]_vars

\* request i was allowed by validatePipelineStep, is not yet confirmed, and
\* nothing else has touched its run or the expected step since
AwaitingConfirm(i) ==
    /\ inflight[i].pc = "validated"
    /\ Has(pipelineStateCache, inflight[i].pipelineRunId)
    /\ LET q == inflight[i]
           run == pipelineStateCache[q.pipelineRunId]
       IN /\ run.status = "in_progress"
          /\ Len(run.steps_completed) = q.validation.stepIndex
          /\ q.validation.stepIndex < Len(StepsOf(run))
          /\ Trim(StepsOf(run)[q.validation.stepIndex + 1].command) = Trim(q.command)

\* C5: when the process stops after validatePipelineStep allowed a step and
\* before confirmPipelineStep ran, the run loaded from pipeline_state.json
\* after the restart has the current_step, status and steps_completed it
\* had before the submission, and the same command is allowed again.
CrashSafety ==
    [][\A i \in Slots :
          (AwaitingConfirm(i) /\ Restart) =>
             LET q == inflight[i] IN
             /\ Has(pipelineStateCache', q.pipelineRunId)
             /\ pipelineStateCache'[q.pipelineRunId].current_step = q.validation.stepIndex
             /\ pipelineStateCache'[q.pipelineRunId].status = "in_progress"
             /\ pipelineStateCache'[q.pipelineRunId].steps_completed
                   = pipelineStateCache[q.pipelineRunId].steps_completed
             /\ \E r \in RunIds, c \in Commands :
                   /\ r = q.pipelineRunId /\ c = q.command
                   /\ validatePipelineStep(r, c)'.allowed]_vars

\* C5 witness: the process was restarted while an allowed step at index 1
\* awaited its confirmation, and the run is still at that step
CrashSafetyWitness ==
    /\ Has(resp, "reset")
    /\ \E q \in resp.reset :
          /\ q.pc = "validated"
          /\ q.validation.stepIndex = 1
          /\ Has(pipelineStateCache, q.pipelineRunId)
          /\ pipelineStateCache[q.pipelineRunId].current_step = 1

\* C6 as stated: every successful start returns a run_id that no run in the
\* store has, so no start replaces or resets an existing run.
FreshRunId ==
    [][(resp'.status = 201 /\ Has(resp', "run_id")) =>
          /\ resp'.run_id \notin DOMAIN pipelineStateCache
          /\ \A r \in DOMAIN pipelineStateCache :
                /\ Has(pipelineStateCache', r)
                /\ pipelineStateCache'[r] = pipelineStateCache[r]]_vars


\* the authenticator holds a credential for the key and it is active
KnownActive(k) ==
    /\ mwApiKeysCache.loaded
    /\ Has(mwApiKeysCache.data, KeysProp)
    /\ Has(mwApiKeysCache.data[KeysProp], k)
    /\ mwApiKeysCache.data[KeysProp][k].active

\* the credential the authenticator holds for the key
MwCred(k) == mwApiKeysCache.data[KeysProp][k]

\* the outcome of a request bearing key k: the process stopped, or the
\* request ended with 401 or 429 and nothing queued, or k is an active
\* credential and whatever routing produced carries that credential's record
RequestAuthenticated(k) ==
    \/ ~running'
    \/ resp'.status \in {401, 429} /\ inflight' = inflight
    \/ /\ KnownActive(k)'
       /\ resp'.status # 0 =>
            \/ resp'.status = 404 /\ MwCred(k)'.tier = "orchestrator"
            \/ Has(resp', "agent") /\ resp'.agent = MwCred(k)'.name
       /\ \A i \in Slots :
            inflight'[i] # inflight[i] =>
               /\ inflight'[i].client.apiKey = k
               /\ inflight'[i].client.name = MwCred(k)'.name
               /\ inflight'[i].client.tier = MwCred(k)'.tier

Count(k) ==
    IF Has(usageCache, k) /\ Has(usageCache[k], today) THEN usageCache[k][today] ELSE 0

\* a request bearing an active key whose count has reached dailyLimit is
\* denied with 429
LimitEnforced ==
    \A k \in AuthKeys :
        (/\ Request("GET", UrlRoot, k)
         /\ running'
         /\ KnownActive(k)'
         /\ Count(k) >= MwCred(k)'.dailyLimit) => resp'.status = 429

\* C8 as stated: within one calendar day the count of a key never
\* decreases, and once it has reached dailyLimit every later request with
\* the key that day is denied with 429.
RateLimitMonotone ==
    [][/\ today' = today => \A k \in AuthKeys : Count(k)' >= Count(k)
       /\ LimitEnforced]_vars

\* C8 amended: within one calendar day and one run of the process (no stop
\* or restart in between) the count of a key never decreases and never
\* exceeds dailyLimit, and once it has reached dailyLimit every later
\* request with the key is denied with 429.
RateLimitPerProcess ==
    [][/\ (today' = today /\ restarts' = restarts /\ running') =>
             \A k \in AuthKeys : Count(k)' >= Count(k)
       /\ LimitEnforced
       /\ \A k \in AuthKeys : KnownActive(k)' => Count(k)' <= MwCred(k)'.dailyLimit
      ]_vars

\* C8 witness: the worker's key is at its limit and the last request was
\* denied with 429, after a restart had reset the counts
RateLimitWitness ==
    /\ resp.status = 429
    /\ Count(KeyW1) = WorkerLimit
    /\ restarts > 0

\* C9 as stated: once agents/delete has answered 200 for a key, a request
\* bearing that key is denied with 401.
Revocation ==
    [][\A k \in AuthKeys, t \in AuthKeys :
          (AgentsDelete(k, t) /\ resp'.status = 200) =>
             (~AuthThrows(t) /\ authenticate(t).status = 401)']_vars

\* C10 as stated: once agents/create has answered 201 with a key for a
\* tunnel, a request bearing that key passes the authenticator as a worker
\* bound to that tunnel.
Issuance ==
    [][\A k \in HeaderKeys, p \in AgentPayloads, r \in RandomTails, g \in HeaderKeys :
          (AgentsCreate(k, p, r) /\ resp'.status = 201 /\ g = resp'.apiKey) =>
             (/\ Admitted(g)
              /\ authenticate(g).client.tier = "worker"
              /\ authenticate(g).client.tunnel = p.tunnel)']_vars


\* the tunnel registry and the credential store, in memory and on disk, are
\* as before the step
StoresUnchanged ==
    /\ tunnelsCache' = tunnelsCache /\ tunnelsFile' = tunnelsFile
    /\ apiKeysCache' = apiKeysCache /\ apiKeysFile' = apiKeysFile

\* the response is the policy evaluator's: the 403 denial or the 200
PolicyAnswer(r) ==
    \/ r.status = 403 /\ r.error = "Access Denied by Tunnel Policy"
    \/ r.status = 200 /\ Has(r, "message")
       /\ r.message = "Request allowed by tunnel policy"

\* key k is admitted by the authenticator as a worker's
WorkerCaller(k) ==
    /\ Admitted(k)
    /\ authenticate(k).client.tier = "worker"

\* no administrative handler runs for a worker's key
NoAdminForWorker ==
    \A k \in GateKeys :
        WorkerCaller(k) =>
           /\ \A p \in GatePayloads : ~TunnelsCreate(k, p)
           /\ \A t \in GateKeys : ~AgentsDelete(k, t)

StepsIn(tunnels, run) ==
    IF Has(tunnels, run.pipeline)
       /\ HasPipeline(tunnels[run.pipeline])
       /\ Has(tunnels[run.pipeline].pipeline, "steps")
    THEN tunnels[run.pipeline].pipeline.steps
    ELSE <<>>

\* C12 as stated: a run turns completed only with current_step at the number
\* of pipeline steps, a confirmation that brings current_step there turns it
\* completed, and a completed run stays completed whatever submission,
\* reset or tunnel change follows (a start that re-uses the run's id aside).
CompletedStays ==
    [][~Has(resp', "total_steps") =>
       \A r \in DOMAIN pipelineStateCache \cap DOMAIN pipelineStateCache' :
          LET run == pipelineStateCache[r]
              after == pipelineStateCache'[r]
          IN /\ (run.status # "completed" /\ after.status = "completed") =>
                   after.current_step >= Len(StepsIn(tunnelsCache', after))
             /\ (after.current_step = run.current_step + 1
                 /\ after.current_step >= Len(StepsIn(tunnelsCache', after))) =>
                   after.status = "completed"
             /\ run.status = "completed" => after.status = "completed"]_vars

\* steps_completed of a run is extended at its end only
IsPrefix(s, t) == Len(s) <= Len(t) /\ SubSeq(t, 1, Len(s)) = s

\* C13 as stated: for every run, current_step is the length of
\* steps_completed, current_step never decreases and steps_completed only
\* grows at its end.
ProgressConsistent ==
    [][\A r \in DOMAIN pipelineStateCache' :
          LET after == pipelineStateCache'[r]
          IN /\ after.current_step = Len(after.steps_completed)
             /\ Has(pipelineStateCache, r) =>
                  /\ after.current_step >= pipelineStateCache[r].current_step
                  /\ IsPrefix(pipelineStateCache[r].steps_completed,
                              after.steps_completed)]_vars

\* C14 as stated: the evaluation of a pipeline submission (validatePipelineStep,
\* allowing or denying) leaves every run and the persisted run store as they
\* were; a run changes through a submission in confirmPipelineStep only.
CommitDiscipline ==
    [][\A i \in Slots, b \in Bodies :
          (Submission(i, b) /\ WorkerEnd(i, b)) =>
             UNCHANGED << pipelineStateCache, pipelineStateFile >>]_vars

\* the body b of request i is the command expected next by an in-progress run
InOrder(i, b) ==
    /\ Submission(i, b)
    /\ Has(pipelineStateCache, b.payload.run_id)
    /\ LET run == pipelineStateCache[b.payload.run_id] IN
       /\ run.status = "in_progress"
       /\ run.current_step < Len(StepsOf(run))
       /\ Trim(CommandOf(b.payload)) =
             Trim(StepsOf(run)[run.current_step + 1].command)

\* request i was allowed as a pipeline step and its run is as it was then:
\* the worker submits one command at a time
OneAtATime(i) ==
    /\ inflight[i].pc = "validated"
    /\ Has(pipelineStateCache, inflight[i].pipelineRunId)
    /\ LET run == pipelineStateCache[inflight[i].pipelineRunId] IN
       /\ run.status = "in_progress"
       /\ run.current_step = inflight[i].validation.stepIndex

AtWhitelist(i, b) ==
    /\ inflight[i].pc = "body"
    /\ b.valid
    /\ ~PipelineDispatch(inflight[i].tunnel, b.payload)
    /\ inflight[i].tunnel.command_whitelist_mode = "strict"
    /\ Len(inflight[i].tunnel.allowed_commands) > 0

\* some allowed command, trimmed, is the trimmed command or is followed in
\* it by a space
Whitelisted(allowed, command) ==
    \E j \in DOMAIN allowed :
        \/ Trim(command) = Trim(allowed[j])
        \/ /\ Len(Trim(command)) > Len(Trim(allowed[j]))
           /\ SubSeq(Trim(command), 1, Len(Trim(allowed[j]))) = Trim(allowed[j])
           /\ Trim(command)[Len(Trim(allowed[j])) + 1] = WS

NotInWhitelist(command) == <<"Command '">> \o command \o <<"' not in whitelist">>

\* C16: a body that reaches the strict whitelist of a tunnel with allowed
\* commands passes it exactly when some allowed command c has
\* trim(command) = trim(c) or trim(command) beginning with trim(c) and a
\* space; a command that does not pass is denied (403) with
\* "Command '<cmd>' not in whitelist", one that passes never is.
StrictWhitelist ==
    [][\A i \in Slots, b \in PolicyBodies :
          (AtWhitelist(i, b) /\ WorkerEnd(i, b)) =>
             LET command == CommandOf(b.payload)
                 denied == /\ resp'.status = 403
                           /\ resp'.reason = NotInWhitelist(command)
             IN /\ denied <=> ~Whitelisted(inflight[i].tunnel.allowed_commands, command)
                /\ (inflight[i].tunnel.allowed_commands = << <<WS, "a", WS>> >>) =>
                      /\ command = <<"a", WS, "b">> => ~denied
                      /\ command \in {<<"a", "b">>, CmdB} => denied]_vars

\* the command that runs an allowed command into further text was denied by
\* the whitelist that lists only that allowed command
StrictWhitelistWitness ==
    /\ resp.status = 403
    /\ resp.reason = NotInWhitelist(<<"a", "b">>)
    /\ Has(tunnelsCache, "P")
    /\ tunnelsCache["P"].allowed_commands = << <<WS, "a", WS>> >>

\* request i awaits its body on a strict tunnel that lists no command
StrictEmpty(i) ==
    /\ inflight[i].pc = "body"
    /\ inflight[i].tunnel.command_whitelist_mode = "strict"
    /\ Len(inflight[i].tunnel.allowed_commands) = 0

\* the request was denied by the policy and goes no further
DeniedNow(i) == resp'.status = 403 /\ inflight'[i].pc = "idle"

AtKeywords(i, b) ==
    /\ inflight[i].pc = "body"
    /\ b.valid
    /\ ~PipelineDispatch(inflight[i].tunnel, b.payload)
    /\ inflight[i].tunnel.command_whitelist_mode = "strict" =>
          Whitelisted(inflight[i].tunnel.allowed_commands, CommandOf(b.payload))

\* keyword and command differ at most in the case of their letters somewhere
\* in the command
KeywordIn(keyword, command) ==
    \E from \in 1..(Len(command) + 1) :
        /\ from + Len(keyword) - 1 <= Len(command)
        /\ \A n \in 1..Len(keyword) :
              LowerTok(command[from + n - 1]) = LowerTok(keyword[n])

ForbiddenKeyword(keyword) == <<"Forbidden keyword '">> \o keyword \o <<"' detected">>

\* C18: a body that reaches the keyword check, in strict or lax mode, is
\* denied with "Forbidden keyword '<kw>' detected" exactly when some forbidden
\* keyword of the tunnel is, letter case aside, a substring of the command;
\* the keyword named is the first such keyword of the list; with no such
\* keyword the request is allowed.
ForbiddenKeywords ==
    [][\A i \in Slots, b \in PolicyBodies :
          (AtKeywords(i, b) /\ WorkerEnd(i, b)) =>
             LET command == CommandOf(b.payload)
                 kws == inflight[i].tunnel.forbidden_keywords
                 hits == {j \in DOMAIN kws : KeywordIn(kws[j], command)}
             IN /\ hits = {} => resp'.status = 200
                /\ hits # {} =>
                      /\ resp'.status = 403
                      /\ \E j \in hits :
                            /\ \A k \in hits : j <= k
                            /\ resp'.reason = ForbiddenKeyword(kws[j])]_vars

\* 'a b' passed the whitelist of P and was denied for the keyword 'B', listed
\* before the keyword 'a ' that it contains as well
ForbiddenKeywordsWitness ==
    /\ resp.status = 403
    /\ resp.reason = ForbiddenKeyword(<<"B">>)
    /\ Has(tunnelsCache, "P")
    /\ tunnelsCache["P"].command_whitelist_mode = "strict"
    /\ tunnelsCache["P"].allowed_commands = << <<WS, "a", WS>> >>
    /\ tunnelsCache["P"].forbidden_keywords = << <<"B">>, <<"a", WS>> >>

\* the check, by its place in the order, that a denial reason belongs to
CheckOf(reason) ==
    CASE Head(reason) = "Invalid Tunnel Config" -> 1
      [] Head(reason) = "Method " -> 2
      [] Head(reason) = "Path " -> 3
      [] Head(reason) = "Invalid JSON payload" -> 4
      [] Head(reason) \in {"Pipeline run '", "Pipeline config no longer exists.",
                           "All pipeline steps already completed.",
                           "Wrong step. Expected step "} -> 5
      [] Head(reason) \in {"No commands allowed in strict mode", "Command '"} -> 6
      [] Head(reason) = "Forbidden keyword '" -> 7
      [] OTHER -> 0

\* check n of the first three fails for a request of the worker bound to P
HeadFails(n, method, url) ==
    IF ~Has(tunnelsCache, "P") THEN n = 1
    ELSE LET tunnel == tunnelsCache["P"] IN
         CASE n = 1 -> FALSE
           [] n = 2 -> \A j \in DOMAIN tunnel.allowed_methods :
                          tunnel.allowed_methods[j] \notin {"*", method}
           [] n = 3 -> /\ tunnel.allowed_paths # <<>>
                       /\ \A j \in DOMAIN tunnel.allowed_paths :
                             ~StartsWith(CleanUrl(url), tunnel.allowed_paths[j])

\* check n of the last four fails for the body, each taken by itself
BodyFails(n, tunnel, body) ==
    IF ~body.valid THEN n = 4
    ELSE LET command == CommandOf(body.payload) IN
         CASE n = 4 -> FALSE
           [] n = 5 -> /\ PipelineDispatch(tunnel, body.payload)
                       /\ ~validatePipelineStep(body.payload.run_id, command).allowed
           [] n = 6 -> /\ tunnel.command_whitelist_mode = "strict"
                       /\ ~Whitelisted(tunnel.allowed_commands, command)
           [] n = 7 -> \E j \in DOMAIN tunnel.forbidden_keywords :
                          KeywordIn(tunnel.forbidden_keywords[j], command)

First(failing) == CHOOSE n \in failing : \A k \in failing : n <= k

Decision(i, b) ==
    LET result == ValidateBody(inflight[i].tunnel, b)
    IN [allowed |-> result.allowed,
        reason |-> IF result.allowed THEN <<>> ELSE result.error]

\* the run a body names, if the body is handed to the pipeline state machine
RunOf(i, b) ==
    IF b.valid /\ HasPipeline(inflight[i].tunnel) /\ Has(b.payload, "run_id")
       /\ Has(pipelineStateCache, b.payload.run_id)
    THEN pipelineStateCache[b.payload.run_id]
    ELSE EmptyObj

\* request i waits for its body while another request is processed and the
\* tunnel registry and the credential store stay as they are
WaitsThrough(i) ==
    /\ inflight[i].pc = "body"
    /\ inflight'[i] = inflight[i]
    /\ tunnelsCache' = tunnelsCache
    /\ apiKeysCache' = apiKeysCache

TunnelFields ==
    {"allowed_methods", "allowed_paths", "allowed_commands", "forbidden_keywords",
     "command_whitelist_mode", "pipeline"}

\* C21 as stated: a tunnel created with any values of allowed_methods,
\* allowed_paths, allowed_commands, forbidden_keywords, command_whitelist_mode
\* and pipeline is listed by GET /orchestrator/tunnels with those values, and
\* a created agent is listed by GET /orchestrator/agents with the name and
\* tunnel supplied; each listing returns the store as it is.
RoundTrip ==
    [][/\ \A p \in RoundPayloads :
             (TunnelsCreate(KeyOrch, p) /\ resp'.status = 201) =>
                \A f \in DOMAIN p \cap TunnelFields :
                   /\ Has(tunnelsCache'[p.name], f)
                   /\ tunnelsCache'[p.name][f] = p[f]
       /\ \A p \in RoundAgents, r \in RandomTails :
             (AgentsCreate(KeyOrch, p, r) /\ resp'.status = 201) =>
                \E j \in DOMAIN AgentEntries(WorkerKeys)' :
                   /\ AgentEntries(WorkerKeys)'[j].name = p.name
                   /\ AgentEntries(WorkerKeys)'[j].tunnel = p.tunnel
       /\ (TunnelsList(KeyOrch) /\ resp'.status = 200) => resp'.tunnels = tunnelsCache'
       /\ (AgentsList(KeyOrch) /\ resp'.status = 200) =>
             resp'.agents = AgentEntries(WorkerKeys)']_vars

\* C22 as stated: when a watched file changed and its content does not
\* parse, the process keeps running and the store in memory stays as it was;
\* when the content parses, it becomes the store in memory as a whole.
WatcherKeepsStore ==
    [][/\ WatchTunnels =>
             IF Parses(tunnelsFile) THEN tunnelsCache' = Parse(tunnelsFile)
             ELSE running' /\ tunnelsCache' = tunnelsCache
       /\ WatchApiKeys =>
             IF Parses(apiKeysFile) THEN apiKeysCache' = Parse(apiKeysFile)
             ELSE running' /\ apiKeysCache' = apiKeysCache]_vars

\* the step sent a success response
Succeeded == Has(resp', "success")

\* C23: when a success response is sent for a mutation (tunnel create, update
\* or delete, agent create or delete, run start, confirmed pipeline step, run
\* abort), the file of each store the step changed holds that store as it is
\* in memory.
PersistBeforeRespond ==
    [][Succeeded =>
          /\ tunnelsCache' # tunnelsCache =>
                Parses(tunnelsFile') /\ Parse(tunnelsFile') = tunnelsCache'
          /\ apiKeysCache' # apiKeysCache =>
                Parses(apiKeysFile') /\ Parse(apiKeysFile') = apiKeysCache'
          /\ pipelineStateCache' # pipelineStateCache =>
                /\ Parses(pipelineStateFile')
                /\ Parse(pipelineStateFile') = pipelineStateCache']_vars

\* the last step was confirmed with a success response and the run is in
\* the file as completed, after the registry and the credentials were changed
PersistWitness ==
    /\ Has(resp, "run_status")
    /\ resp.run_status = "completed"
    /\ Parse(pipelineStateFile) = pipelineStateCache
    /\ Has(pipelineStateCache, RunId(0))
    /\ pipelineStateCache[RunId(0)].status = "completed"
    /\ Parse(tunnelsFile) # InitTunnels
    /\ DOMAIN Parse(apiKeysFile) # DOMAIN KeysNested

\* the start pipeline/start is asked for has no tunnel, no pipeline, or a
\* pipeline whose steps is empty or missing
BadStart(payload) ==
    \/ ~Has(tunnelsCache, payload.pipeline)
    \/ ~HasPipeline(tunnelsCache[payload.pipeline])
    \/ StartThrows(payload)

\* C24 as stated: pipeline/start on a tunnel that does not exist, has no
\* pipeline, or has a pipeline with an empty or missing steps list answers
\* with an error and leaves the run store, in memory and in its file, as it
\* was.
StartRefused ==
    [][\A p \in StartPayloads :
          (BadStart(p) /\ PipelineStart(KeyOrch, p)) =>
              /\ Has(resp', "error")
              /\ pipelineStateCache' = pipelineStateCache
              /\ pipelineStateFile' = pipelineStateFile]_vars

\* the part of C24 that the code keeps: an unknown tunnel and a tunnel
\* without a pipeline are answered 404 and 400 and no run is created
StartRefusedNoPipeline ==
    [][\A p \in StartPayloads :
          (BadStart(p) /\ ~StartThrows(p) /\ PipelineStart(KeyOrch, p)) =>
              /\ Has(resp', "error")
              /\ resp'.status \in {400, 404}
              /\ pipelineStateCache' = pipelineStateCache
              /\ pipelineStateFile' = pipelineStateFile]_vars

\* the step sent a 403 of the tunnel policy
PolicyDenial == resp'.status = 403 /\ Has(resp', "reason")

\* the denial is the state machine's answer to a command that is not the
\* expected one
WrongStepDenial == Head(resp'.reason) = "Wrong step. Expected step "

\* C25 as stated: a 403 of the tunnel policy carries expected_command if and
\* only if it is a wrong-step denial, and then the value is the command of
\* the step at the run's current_step; the denials for an unknown or terminal
\* run, a vanished pipeline, the method, the path, the whitelist and a
\* keyword carry none.
ExpectedCommand ==
    [][/\ PolicyDenial => (Has(resp', "expected_command") <=> WrongStepDenial)
       /\ \A i \in Slots, b \in Bodies :
            (WorkerEnd(i, b) /\ PolicyDenial /\ WrongStepDenial) =>
                LET run == pipelineStateCache[b.payload.run_id]
                    steps == tunnelsCache[run.pipeline].pipeline.steps
                IN /\ Has(resp', "expected_command")
                   /\ resp'.expected_command = steps[run.current_step + 1].command]_vars

\* every wrong-step denial whose expected command is not the empty string
\* carries it, and no other denial carries the field
ExpectedCommandNonEmpty ==
    [][/\ (PolicyDenial /\ Has(resp', "expected_command")) => WrongStepDenial
       /\ \A i \in Slots, b \in Bodies :
            (WorkerEnd(i, b) /\ PolicyDenial /\ WrongStepDenial) =>
                LET run == pipelineStateCache[b.payload.run_id]
                    steps == tunnelsCache[run.pipeline].pipeline.steps
                    expected == steps[run.current_step + 1].command
                IN IF expected = <<>> THEN ~Has(resp', "expected_command")
                   ELSE /\ Has(resp', "expected_command")
                        /\ resp'.expected_command = expected]_vars

\* C26 as stated: when the process stops and starts again on the same day,
\* the count the rate limiter uses for a key is at least the count before
\* the stop minus the save interval, and a key that was at its limit, more
\* than the save interval above zero, is still answered 429.
UsageSurvivesRestart ==
    [][/\ (restarts' # restarts /\ today' = today) =>
             \A k \in AuthKeys : Count(k)' >= Count(k) - SaveEvery
       /\ (/\ restarts > 0
           /\ Request("GET", UrlRoot, KeyW1)
           /\ Has(Parse(usageFile), KeyW1)
           /\ Has(Parse(usageFile)[KeyW1], today)
           /\ Parse(usageFile)[KeyW1][today] >= BulkLimit) => resp'.status = 429]_vars

\* request i, still waiting for its body, was admitted on a tunnel whose
\* pipeline, as it was when the request started, has a step at the place
\* where the run named by b stands
SnapshotStep(i, b) ==
    /\ inflight[i].pc = "body"
    /\ b.valid
    /\ PipelineDispatch(inflight[i].tunnel, b.payload)
    /\ Has(pipelineStateCache, b.payload.run_id)
    /\ pipelineStateCache[b.payload.run_id].status = "in_progress"
    /\ pipelineStateCache[b.payload.run_id].pipeline = inflight[i].tunnelName
    /\ pipelineStateCache[b.payload.run_id].current_step
         < Len(inflight[i].tunnel.pipeline.steps)

\* C27 as stated: a request whose body is still being received when the
\* registry changes is evaluated against the registry as it was when the
\* request started, the pipeline steps included: its command is allowed
\* exactly when it is the command the steps of that registry expect.
SnapshotConsistency ==
    [][\A i \in Slots, b \in Bodies :
          (SnapshotStep(i, b) /\ WorkerEnd(i, b)) =>
              LET run == pipelineStateCache[b.payload.run_id]
                  expected == inflight[i].tunnel.pipeline.steps[run.current_step + 1]
              IN (inflight'[i].pc = "validated")
                    <=> (Trim(CommandOf(b.payload)) = Trim(expected.command))]_vars

\* the method is not among the tunnel's allowed methods
MethodRefused(tunnel, method) ==
    ~Includes(tunnel.allowed_methods, "*") /\ ~Includes(tunnel.allowed_methods, method)

\* the tunnel lists path prefixes and the path, without its query string,
\* begins with none of them
PathRefused(tunnel, url) ==
    /\ Len(tunnel.allowed_paths) > 0
    /\ \A j \in DOMAIN tunnel.allowed_paths :
          ~StartsWith(CleanUrl(url), tunnel.allowed_paths[j])

\* C28: a request of the worker of the pipeline tunnel P whose method is not
\* allowed, or whose path has none of the listed prefixes, is denied with the
\* method or the path as the reason before its body is read: no run changes,
\* whatever command the body would carry. A request whose body is awaited,
\* and so may reach the pipeline state machine, has passed both checks.
MethodPathFirst ==
    [][\A m \in GuardMethods, u \in GuardUrls :
          (/\ Request(m, u, KeyW1)
           /\ resp'.status \notin {401, 429}
           /\ Has(tunnelsCache, "P")
           /\ HasPipeline(tunnelsCache["P"])) =>
              LET refused == MethodRefused(tunnelsCache["P"], m)
                             \/ PathRefused(tunnelsCache["P"], u)
              IN /\ refused =>
                      /\ resp'.status = 403
                      /\ Head(resp'.reason) =
                            (IF MethodRefused(tunnelsCache["P"], m)
                             THEN "Method " ELSE "Path ")
                      /\ inflight' = inflight
                      /\ pipelineStateCache' = pipelineStateCache
                      /\ pipelineStateFile' = pipelineStateFile
                 /\ (inflight' # inflight) => ~refused]_vars

\* a run on P has advanced to its second step and the worker's latest
\* submission was turned away because of its path
MethodPathFirstWitness ==
    /\ resp.status = 403
    /\ Has(resp, "reason")
    /\ Head(resp.reason) = "Path "
    /\ Has(pipelineStateCache, RunId(0))
    /\ pipelineStateCache[RunId(0)].status = "in_progress"
    /\ pipelineStateCache[RunId(0)].current_step = 1

\* run r is in progress and the tunnel it names is gone or has no pipeline
Vanished(r) ==
    /\ Has(pipelineStateCache, r)
    /\ pipelineStateCache[r].status = "in_progress"
    /\ \/ ~Has(tunnelsCache, pipelineStateCache[r].pipeline)
       \/ ~HasPipeline(tunnelsCache[pipelineStateCache[r].pipeline])

\* run r is after the step what it was before it, in its file and, while the
\* process lives, in memory
RunKept(r) ==
    /\ Parse(pipelineStateFile')[r] = Parse(pipelineStateFile)[r]
    /\ running' => pipelineStateCache'[r] = pipelineStateCache[r]

\* the step answered 403 "Pipeline config no longer exists."
VanishedDenial ==
    /\ resp'.status = 403
    /\ Has(resp', "reason")
    /\ resp'.reason = <<"Pipeline config no longer exists.">>

\* C29 as stated: while the tunnel of an in-progress run is gone or has no
\* pipeline, every submission for that run is denied with "Pipeline config
\* no longer exists." and the run stays as it is.
VanishedDeniesAll ==
    [][\A i \in Slots, b \in VanishBodies :
          (Vanished(b.payload.run_id) /\ WorkerEnd(i, b)) =>
              VanishedDenial /\ RunKept(b.payload.run_id)]_vars

\* C29 amended: while the tunnel of an in-progress run is gone or has no
\* pipeline, no step changes the run. A submission for it that is handed to
\* the state machine (its request was admitted on a tunnel with a pipeline)
\* is denied with "Pipeline config no longer exists."; one that is not is
\* decided by the whitelist and the keywords of the tunnel it was admitted on
\* and is never queued for confirmation; a request of a worker whose tunnel
\* is gone is denied with "Invalid Tunnel Config" before its body is read.
VanishedKeepsRun ==
    [][/\ \A r \in RunIds : Vanished(r) => RunKept(r)
       /\ \A i \in Slots, b \in VanishBodies :
            (Vanished(b.payload.run_id) /\ WorkerEnd(i, b)) =>
                IF PipelineDispatch(inflight[i].tunnel, b.payload)
                THEN VanishedDenial
                ELSE /\ inflight'[i].pc = "idle"
                     /\ resp' = IF ValidateBody(inflight[i].tunnel, b).allowed
                                THEN Allowed(inflight[i].tunnelName, inflight[i].client)
                                ELSE Denial(ValidateBody(inflight[i].tunnel, b),
                                            inflight[i].tunnelName, inflight[i].client)
       /\ (Request("POST", UrlRoot, KeyW1) /\ ~Has(tunnelsCache, "P")
           /\ resp'.status \notin {401, 429}) =>
                /\ resp'.status = 403
                /\ resp'.reason = <<"Invalid Tunnel Config">>]_vars

\* a submission for the run on P was denied because P is gone, the run still
\* in progress at its first step
VanishedWitness ==
    /\ resp.status = 403
    /\ Has(resp, "reason")
    /\ resp.reason = <<"Pipeline config no longer exists.">>
    /\ Has(pipelineStateCache, RunId(0))
    /\ pipelineStateCache[RunId(0)].status = "in_progress"
    /\ pipelineStateCache[RunId(0)].current_step = 0
    /\ ~Has(tunnelsCache, "P")

\* the response is the policy evaluator's for the tunnel PublicViewer, in
\* the caller's name
PublicViewerAnswer(r, name) ==
    /\ PolicyAnswer(r)
    /\ r.tunnel = PublicViewer
    /\ r.agent = name

\* C30: a request of the orchestrator to a path under /orchestrator/ goes to
\* the administrative handler: no policy check is made, nothing waits for
\* the evaluator and the answer is never the 403 of the tunnel policy. A
\* request of the orchestrator to any other path is evaluated against the
\* tunnel PublicViewer: it is answered with that tunnel's decision, or waits
\* for its body on that tunnel and is then answered with its decision.
TierRouting ==
    [][/\ \A m \in {"GET", "POST"}, u \in TierUrls :
            (Request(m, u, KeyOrch) /\ resp'.status \notin {401, 429}) =>
                IF StartsWith(u, OrchPrefix)
                THEN /\ resp'.status # 403
                     /\ ~Has(resp', "reason")
                     /\ inflight' = inflight
                ELSE \/ PublicViewerAnswer(resp', OrchCred.name)
                     \/ /\ resp' = NoResponse
                        /\ \E i \in Slots :
                              /\ inflight[i].pc = "idle"
                              /\ inflight'[i].pc = "body"
                              /\ inflight'[i].tunnelName = PublicViewer
                              /\ inflight'[i].tunnel = tunnelsCache[PublicViewer]
       /\ \A p \in TierPayloads :
            TunnelsCreate(KeyOrch, p) => resp'.status = 201 /\ inflight' = inflight
       /\ TunnelsList(KeyOrch) => resp'.status = 200 /\ inflight' = inflight
       /\ \A i \in Slots, b \in GateBodies :
            (/\ inflight[i].pc = "body"
             /\ inflight[i].client.tier = "orchestrator"
             /\ WorkerEnd(i, b)) =>
                /\ ~StartsWith(inflight[i].url, OrchPrefix)
                /\ PublicViewerAnswer(resp', OrchCred.name)
                /\ resp' = IF ValidateBody(inflight[i].tunnel, b).allowed
                           THEN Allowed(PublicViewer, inflight[i].client)
                           ELSE Denial(ValidateBody(inflight[i].tunnel, b),
                                       PublicViewer, inflight[i].client)]_vars

\* the orchestrator made the tunnel PublicViewer through the administrative
\* handler and its own POST to / was then denied by that tunnel's whitelist
TierRoutingWitness ==
    /\ Has(tunnelsCache, PublicViewer)
    /\ resp.status = 403
    /\ Has(resp, "reason")
    /\ Head(resp.reason) = "Command '"
    /\ resp.tunnel = PublicViewer
    /\ resp.agent = OrchCred.name

\* C31: the tunnel of a worker is looked up when its request arrives. While
\* no tunnel P exists, every admitted request of the worker bound to P is
\* denied with "Invalid Tunnel Config" and nothing waits for the evaluator;
\* P stays absent, across a restart too, until tunnels/create makes it again.
\* While P exists the request is decided on P as the registry holds it at
\* that moment: the method and path answer, or the body is awaited on it.
ResolvedAtUse ==
    [][/\ \A m \in {"GET", "POST"} :
            (Request(m, UrlRoot, KeyW1) /\ resp'.status \notin {401, 429}) =>
                IF ~Has(tunnelsCache, "P")
                THEN /\ resp'.status = 403
                     /\ resp'.reason = <<"Invalid Tunnel Config">>
                     /\ resp'.tunnel = "P"
                     /\ inflight' = inflight
                ELSE LET head == ValidateHead(m, UrlRoot, "P")
                         client == authenticate(KeyW1).client
                     IN IF ~head.allowed
                        THEN resp' = Denial(head, "P", client) /\ inflight' = inflight
                        ELSE IF m = "POST"
                        THEN \E i \in Slots :
                                /\ inflight[i].pc = "idle"
                                /\ inflight'[i].pc = "body"
                                /\ inflight'[i].tunnelName = "P"
                                /\ inflight'[i].tunnel = tunnelsCache["P"]
                        ELSE resp' = Allowed("P", client)
       /\ (TunnelsDelete(KeyOrch, "P") /\ resp'.status = 200) =>
             ~Has(tunnelsCache', "P")
       /\ (~Has(tunnelsCache, "P") /\ resp'.status # 201) =>
             ~Has(tunnelsCache', "P")]_vars

\* P was deleted, the gateway restarted, and the worker's request was then
\* denied for want of its tunnel
ResolvedAtUseWitness ==
    /\ ~Has(tunnelsCache, "P")
    /\ restarts > 0
    /\ resp.status = 403
    /\ Has(resp, "reason")
    /\ resp.reason = <<"Invalid Tunnel Config">>
    /\ resp.agent = "w1"

\* payload.command ?? payload.url ?? ""
NullishCommand(payload) ==
    IF Has(payload, "command") THEN payload.command
    ELSE IF Has(payload, "url") THEN payload.url
    ELSE <<>>

\* C32 as stated: the command the evaluator checks is payload.command when
\* the payload has one, the empty string included, else payload.url, else
\* the empty string: on a strict tunnel that lists commands and forbids no
\* keyword a body is allowed exactly when that command is whitelisted.
CanonicalCommand ==
    [][\A i \in Slots, p \in ExtractPayloads :
          (/\ inflight[i].pc = "body"
           /\ Len(inflight[i].tunnel.allowed_commands) > 0
           /\ WorkerEnd(i, [valid |-> TRUE, payload |-> p])) =>
              (resp'.status = 200
                 <=> IsAllowed(inflight[i].tunnel, NullishCommand(p)))]_vars

\* the command the code extracts, payload.command || payload.url || '',
\* decides: the empty command gives way to the url
CanonicalCommandTruthy ==
    [][\A i \in Slots, p \in ExtractPayloads :
          (/\ inflight[i].pc = "body"
           /\ Len(inflight[i].tunnel.allowed_commands) > 0
           /\ WorkerEnd(i, [valid |-> TRUE, payload |-> p])) =>
              (resp'.status = 200
                 <=> IsAllowed(inflight[i].tunnel, CommandOf(p)))]_vars

\* the update answered 404 and the registry and its file are as before
UpdateRefused ==
    /\ resp'.status = 404
    /\ tunnelsCache' = tunnelsCache
    /\ tunnelsFile' = tunnelsFile

\* C33 as stated: after a successful update every key supplied has the
\* supplied value, every other key of the tunnel keeps its value, the name is
\* the same and updated_at is stamped; an update of a tunnel that does not
\* exist is answered 404 and changes nothing.
ShallowMerge ==
    [][\A p \in MergePayloads :
          TunnelsUpdate(KeyOrch, p) =>
             IF ~Has(tunnelsCache, p.name) THEN UpdateRefused
             ELSE LET old == tunnelsCache[p.name]
                      new == tunnelsCache'[p.name]
                  IN /\ resp'.status = 200
                     /\ DOMAIN tunnelsCache' = DOMAIN tunnelsCache
                     /\ \A k \in DOMAIN p \ {"name"} : new[k] = p[k]
                     /\ \A k \in DOMAIN old \ DOMAIN p :
                           k # "updated_at" => new[k] = old[k]
                     /\ new.updated_at = now]_vars

\* C33 amended: after a successful update every key supplied other than
\* updated_at has the supplied value, updated_at is the time of the update
\* whatever the request supplied for it, every other key of the tunnel keeps
\* its value, no key appears that was neither there nor supplied, and the
\* tunnel is under the same name; every other tunnel is untouched and the
\* file holds the registry. An update of a tunnel that does not exist is
\* answered 404 and changes nothing.
ShallowMergeStamped ==
    [][\A p \in MergePayloads :
          TunnelsUpdate(KeyOrch, p) =>
             IF ~Has(tunnelsCache, p.name) THEN UpdateRefused
             ELSE LET old == tunnelsCache[p.name]
                      new == tunnelsCache'[p.name]
                  IN /\ resp'.status = 200
                     /\ DOMAIN tunnelsCache' = DOMAIN tunnelsCache
                     /\ DOMAIN new = (DOMAIN old \cup DOMAIN p \cup {"updated_at"})
                                        \ {"name"}
                     /\ \A k \in DOMAIN p \ {"name", "updated_at"} : new[k] = p[k]
                     /\ \A k \in DOMAIN old \ DOMAIN p :
                           k # "updated_at" => new[k] = old[k]
                     /\ new.updated_at = now
                     /\ \A n \in DOMAIN tunnelsCache \ {p.name} :
                           tunnelsCache'[n] = tunnelsCache[n]
                     /\ Parse(tunnelsFile') = tunnelsCache']_vars

\* Q was given a pipeline and an empty whitelist by an update after the
\* clock had advanced, and kept its methods
ShallowMergeWitness ==
    /\ resp.status = 200
    /\ Has(resp, "config")
    /\ resp.tunnel = "Q"
    /\ tunnelsCache["Q"].allowed_commands = <<>>
    /\ tunnelsCache["Q"].pipeline = [steps |-> StepsA]
    /\ tunnelsCache["Q"].allowed_methods = InitTunnels["Q"].allowed_methods
    /\ tunnelsCache["Q"].updated_at = 1

\* C34: a request the authenticator denies (no key, unknown key, revoked
\* key, daily limit reached) leaves the count of every key as it was; a
\* request it admits adds exactly one to the count of its own key and leaves
\* every other count alone, whether the tunnel policy then allows it or
\* denies it.
UsageFrame ==
    [][\A k \in AuthKeys :
          Request("GET", UrlRoot, k) =>
              IF resp'.status \in {401, 429}
              THEN \A j \in AuthKeys : Count(j)' = Count(j)
              ELSE /\ Count(k)' = Count(k) + 1
                   /\ \A j \in AuthKeys \ {k} : Count(j)' = Count(j)]_vars

\* the worker has used up its limit, and the orchestrator's second request,
\* admitted and counted, was denied by the tunnel policy
UsageFrameWitness ==
    /\ resp.status = 403
    /\ Has(resp, "reason")
    /\ resp.agent = OrchCred.name
    /\ Count(KeyOrch) = 2
    /\ Count(KeyW1) = WorkerLimit
    /\ Count(KeyRevoked) = 0

\* the worker credentials of the credential store: those under "keys", which
\* the authenticator reads, and those at the top level of the file
StoreWorkers ==
    {k \in DOMAIN apiKeysCache[KeysProp] : apiKeysCache[KeysProp][k].tier = "worker"}
    \cup WorkerKeys

\* the credential stored for key k
StoreCred(k) ==
    IF k \in WorkerKeys THEN apiKeysCache[k] ELSE apiKeysCache[KeysProp][k]

\* C35 as stated: the agents listing has an entry for every worker
\* credential of the credential store and none for an orchestrator's, and
\* the key of every entry is the first 8 characters of the credential's key
\* followed by an ellipsis.
AgentsListing ==
    [][(AgentsList(KeyOrch) /\ resp'.status = 200) =>
          /\ \A k \in StoreWorkers :
                \E j \in DOMAIN resp'.agents :
                    /\ resp'.agents[j].key = Substring(k, 8) \o <<"...">>
                    /\ resp'.agents[j].name = StoreCred(k).name
          /\ \A j \in DOMAIN resp'.agents : resp'.agents[j].tier = "worker"]_vars

\* what the listing does return: the worker credentials at the top level of
\* the file, each once, with the key cut to 8 characters
AgentsListingTopLevel ==
    [][(AgentsList(KeyOrch) /\ resp'.status = 200) =>
          /\ Len(resp'.agents) = Cardinality(WorkerKeys)
          /\ \A k \in WorkerKeys :
                \E j \in DOMAIN resp'.agents :
                    resp'.agents[j] = AgentEntry(k, apiKeysCache[k])
          /\ \A j \in DOMAIN resp'.agents : resp'.agents[j].tier = "worker"]_vars

\* the command that follows the current step in the run's own pipeline
NextOfRun(run) ==
    LET steps == tunnelsCache[run.pipeline].pipeline.steps IN
    IF run.current_step < Len(steps) THEN steps[run.current_step + 1].command
    ELSE Null

\* C36 as stated: a run is advanced only by a caller whose resolved tunnel
\* is the run's pipeline, and the next_command answered after an advance is
\* the next step of the run's own pipeline.
OwnPipelineOnly ==
    [][\A i \in Slots :
          (inflight[i].pc = "validated" /\ WorkerRespond(i) /\ resp'.status = 200) =>
             LET run == pipelineStateCache'[inflight[i].pipelineRunId] IN
             /\ inflight[i].tunnelName = run.pipeline
             /\ resp'.next_command = NextOfRun(run)]_vars

\* the part that holds: a caller on the run's own pipeline tunnel is told
\* the next step of that pipeline
OwnPipelineNext ==
    [][\A i \in Slots :
          (/\ inflight[i].pc = "validated" /\ WorkerRespond(i) /\ resp'.status = 200
           /\ inflight[i].tunnelName
                 = pipelineStateCache'[inflight[i].pipelineRunId].pipeline) =>
             resp'.next_command
                 = NextOfRun(pipelineStateCache'[inflight[i].pipelineRunId])]_vars

\* the body handler decided: the response is sent, or the request is an
\* allowed pipeline step waiting for its confirmation; the process lives
Decided(i) ==
    /\ running'
    /\ resp'.status # 0 \/ inflight'[i].pc = "validated"

\* C37 as stated: every body that is valid JSON, of whatever kind and with
\* whatever type of command, gets a decision, and the gateway keeps serving.
EveryBodyDecided ==
    [][\A i \in Slots, b \in TypedBodies : WorkerEnd(i, b) => Decided(i)]_vars

\* the part that holds: bodies that are not null and whose command is a
\* string or absent get a decision
StringBodyDecided ==
    [][\A i \in Slots, b \in TypedBodies :
          (WorkerEnd(i, b) /\ b.json # "null" /\ ~Has(b, "command"))
             => Decided(i)]_vars

\* every entry of store s other than the one named k is in t, unchanged, and
\* t has no other entry besides
OthersKept(s, t, k) ==
    /\ DOMAIN s \ {k} = DOMAIN t \ {k}
    /\ \A j \in DOMAIN s \ {k} : s[j] = t[j]

\* the credentials of a credential store: those listed under "keys" and
\* those at the top level
Nested(c) == IF Has(c, KeysProp) THEN c[KeysProp] ELSE EmptyObj
TopLevel(c) == [k \in DOMAIN c \ {KeysProp} |-> c[k]]

\* every credential other than the one of key k is kept as it is
CredentialsKept(k) ==
    /\ OthersKept(Nested(apiKeysCache), Nested(apiKeysCache'), k)
    /\ OthersKept(TopLevel(apiKeysCache), TopLevel(apiKeysCache'), k)

TunnelsUntouched == UNCHANGED << tunnelsCache, tunnelsFile >>
CredentialsUntouched == UNCHANGED << apiKeysCache, apiKeysFile >>
RunsUntouched == UNCHANGED << pipelineStateCache, pipelineStateFile >>

\* the frame of the tunnel mutations
TunnelFrame ==
    \A p \in FrameTunnels :
        (\/ TunnelsCreate(KeyOrch, p)
         \/ TunnelsUpdate(KeyOrch, p)
         \/ p.name = "Z" /\ TunnelsDelete(KeyOrch, p.name)) =>
            /\ OthersKept(tunnelsCache, tunnelsCache', p.name)
            /\ CredentialsUntouched /\ RunsUntouched

\* the frame of starting and resetting a run
RunFrame ==
    /\ PipelineStart(KeyOrch, [pipeline |-> "P"]) =>
             /\ OthersKept(pipelineStateCache, pipelineStateCache', RunId(now))
             /\ TunnelsUntouched /\ CredentialsUntouched
    /\ \A r \in RunIds :
          PipelineReset(KeyOrch, r) =>
             /\ OthersKept(pipelineStateCache, pipelineStateCache', r)
             /\ TunnelsUntouched /\ CredentialsUntouched

\* the frame of creating a credential
AgentCreateFrame ==
    AgentsCreate(KeyOrch, [name |-> "agent", tunnel |-> "Q"], "x") =>
        /\ CredentialsKept(GenKey(now, "x"))
        /\ TunnelsUntouched /\ RunsUntouched

\* the frame of deleting the credential of key t
AgentDeleteFrame(t) ==
    AgentsDelete(KeyOrch, t) =>
        /\ CredentialsKept(t)
        /\ TunnelsUntouched /\ RunsUntouched

\* C38 as stated: a tunnel mutation changes the tunnel it names only, an
\* agent mutation the credential of the generated or given key only, a run
\* mutation the run of the generated or given id only, and none changes an
\* entry of another store.
MutationFrame ==
    [][/\ TunnelFrame
       /\ RunFrame
       /\ AgentCreateFrame
       /\ \A t \in FrameTargets : AgentDeleteFrame(t)]_vars

\* the part that holds: all of it but the deletion under the key "keys"
MutationFrameCredentialKeys ==
    [][/\ TunnelFrame
       /\ RunFrame
       /\ AgentCreateFrame
       /\ \A t \in FrameTargets \ {KeysProp} : AgentDeleteFrame(t)]_vars

\* ------------------------------------------------- simulate_pipeline.js
HAPPY_PATH ==
    << "git pull origin main", "npm install", "npm run build",
       "pm2 restart shortshub" >>

TUNNEL_POLICY ==
    [allowed_commands |-> HAPPY_PATH, enforce_sequence |-> TRUE,
     all_required |-> TRUE]

\* the longest list of commands a simulated run asks for
MaxCmds == 5

\* what a simulated run may ask for: the steps of the happy path and a
\* command that is not one of them
SimCommands == {HAPPY_PATH[j] : j \in DOMAIN HAPPY_PATH} \cup {"npm test"}

SimRuns == UNION {[1..n -> SimCommands] : n \in 0..MaxCmds}

\* a sequence check that takes every whitelisted command as in sequence
IsInSequenceAny(stepIndex, cmd) == TRUE

\* HAPPY_PATH[stepIndex] === cmd, stepIndex counted from 0
IsInSequence(stepIndex, cmd) ==
    stepIndex < Len(HAPPY_PATH) /\ HAPPY_PATH[stepIndex + 1] = cmd

\* TUNNEL_POLICY.allowed_commands.includes(cmd)
IsWhitelisted(cmd) ==
    \E j \in DOMAIN TUNNEL_POLICY.allowed_commands :
        TUNNEL_POLICY.allowed_commands[j] = cmd

\* HAPPY_PATH[stepIndex] as the message prints it
ExpectedAt(stepIndex) ==
    IF stepIndex < Len(HAPPY_PATH) THEN HAPPY_PATH[stepIndex + 1] ELSE "undefined"

\* validateWithTunnel(commands) is entered
InitSimulate ==
    /\ running = FALSE
    /\ now = 0
    /\ today = 0
    /\ tunnelsFile = Stringify(InitTunnels)
    /\ tunnelsCache = InitTunnels
    /\ apiKeysFile = Stringify(KeysNested)
    /\ apiKeysCache = KeysNested
    /\ pipelineStateCache = EmptyObj
    /\ pipelineStateFile = Stringify(EmptyObj)
    /\ mwApiKeysCache = NotLoaded
    /\ usageCache = EmptyObj
    /\ usageFile = Stringify(EmptyObj)
    /\ inflight = [i \in 1..MaxInflight |-> NoRequest]
    /\ restarts = MaxRestarts
    /\ resp = NoResponse
    /\ make = NoMake
    /\ \E commands \in SimRuns :
          sim = [pc |-> "loop", commands |-> commands, pos |-> 1,
                 stepIndex |-> 0, results |-> <<>>]

\* one iteration of the loop of validateWithTunnel
SimStep ==
    /\ sim.pc = "loop"
    /\ sim.pos <= Len(sim.commands)
    /\ LET cmd == sim.commands[sim.pos]
           isAllowed == IsWhitelisted(cmd)
           isInSequence == IsInSequence(sim.stepIndex, cmd)
       IN
       IF ~isAllowed
       THEN sim' = [sim EXCEPT
                !.results = Append(@, [cmd |-> cmd, status |-> "BLOCKED",
                                       reason |-> <<"Not in whitelist">>]),
                !.pos = @ + 1]
       ELSE IF TUNNEL_POLICY.enforce_sequence /\ ~isInSequence
       THEN sim' = [sim EXCEPT
                !.results = Append(@, [cmd |-> cmd, status |-> "BLOCKED",
                                       reason |-> <<"Wrong order: expected ",
                                                    ExpectedAt(sim.stepIndex),
                                                    " at step ",
                                                    TimeStr(sim.stepIndex + 1)>>]),
                !.pos = @ + 1]
       ELSE sim' = [sim EXCEPT
                !.results = Append(@, [cmd |-> cmd, status |-> "ALLOWED",
                                       reason |-> <<"Valid pipeline step">>]),
                !.stepIndex = @ + 1,
                !.pos = @ + 1]
    /\ UNCHANGED << running, now, today, tunnelsCache, apiKeysCache,
                    pipelineStateCache, mwApiKeysCache, usageCache, tunnelsFile,
                    apiKeysFile, pipelineStateFile, usageFile, inflight,
                    restarts, resp, make >>

\* the results marked ALLOWED
AllowedResults(results) == SelectSeq(results, LAMBDA r : r.status = "ALLOWED")

\* after the loop: completedSteps and allCompleted are computed and returned
SimReturn ==
    /\ sim.pc = "loop"
    /\ sim.pos > Len(sim.commands)
    /\ LET completedSteps == Len(AllowedResults(sim.results)) IN
       sim' = [pc |-> "returned", commands |-> sim.commands,
               results |-> sim.results, completedSteps |-> completedSteps,
               allCompleted |-> (completedSteps = Len(HAPPY_PATH))]
    /\ UNCHANGED << running, now, today, tunnelsCache, apiKeysCache,
                    pipelineStateCache, mwApiKeysCache, usageCache, tunnelsFile,
                    apiKeysFile, pipelineStateFile, usageFile, inflight,
                    restarts, resp, make >>

NextSimulate == SimStep \/ SimReturn

SpecSimulate == InitSimulate /\ [][NextSimulate]_vars

\* the commands of the results marked ALLOWED, in order
AllowedCommands(results) ==
    [j \in 1..Len(AllowedResults(results)) |-> AllowedResults(results)[j].cmd]

\* the allowed commands are the first steps of the happy path, as many as
\* counted; all are completed exactly when they are the whole happy path
AllowedIsPrefix ==
    /\ sim.pc = "loop" =>
          AllowedCommands(sim.results) = SubSeq(HAPPY_PATH, 1, sim.stepIndex)
    /\ sim.pc = "returned" =>
          /\ sim.completedSteps <= Len(HAPPY_PATH)
          /\ AllowedCommands(sim.results)
                = SubSeq(HAPPY_PATH, 1, sim.completedSteps)
          /\ sim.allCompleted <=> AllowedCommands(sim.results) = HAPPY_PATH

\* a command that is not whitelisted, or is not the step expected, is
\* marked BLOCKED and leaves stepIndex as it is; any other is ALLOWED
BlockedKeepsStep ==
    SimStep =>
       LET cmd == sim.commands[sim.pos]
           last == sim'.results[Len(sim'.results)]
           expected == sim.stepIndex < Len(HAPPY_PATH)
                       /\ cmd = HAPPY_PATH[sim.stepIndex + 1]
       IN
       /\ last.cmd = cmd
       /\ Len(sim'.results) = Len(sim.results) + 1
       /\ IF cmd \notin SimCommands \ {"npm test"} \/ ~expected
          THEN last.status = "BLOCKED" /\ sim'.stepIndex = sim.stepIndex
          ELSE last.status = "ALLOWED" /\ sim'.stepIndex = sim.stepIndex + 1

\* C39: in validateWithTunnel the allowed commands, in order, are the first
\* completedSteps steps of HAPPY_PATH; a command outside the whitelist or
\* other than HAPPY_PATH[stepIndex] is blocked without advancing stepIndex;
\* allCompleted is true exactly when the four steps were allowed in order.
SimulationEnforcesOrder == []AllowedIsPrefix /\ [][BlockedKeepsStep]_vars

\* a run that asked for a command off the happy path and one out of order,
\* both blocked, and still completed all four steps
SimulationWitness ==
    /\ sim.pc = "returned"
    /\ sim.allCompleted
    /\ \E j \in DOMAIN sim.results :
          sim.results[j].status = "BLOCKED" /\ sim.results[j].cmd = "npm test"

\* ------------------------------------- the Makefile and AI simulation
NullStep == "null"

MAKEFILE ==
    ("git-pull" :> [type |-> "shell", cmd |-> "git pull origin main",
                    depends_on |-> NullStep])
    @@ ("install" :> [type |-> "shell", cmd |-> "npm install",
                      depends_on |-> "git-pull"])
    @@ ("build" :> [type |-> "shell", cmd |-> "npm run build",
                    depends_on |-> "install"])
    @@ ("check" :> [type |-> "ai",
                    prompt |-> "Is build output healthy? Reply YES or NO only.",
                    depends_on |-> "build"])
    @@ ("restart" :> [type |-> "shell", cmd |-> "pm2 restart shortshub",
                      depends_on |-> "check"])

MakeDeploy == <<"make deploy">>

TUNNEL ==
    [allowed_commands |-> << MakeDeploy >>,
     blocks |-> << <<"git pull">>, <<"npm install">>, <<"npm run build">>,
                   <<"pm2 restart">>, <<"pm2 restart", " all">> >>]

\* const order in runPipeline
StepOrder == << "git-pull", "install", "build", "check", "restart" >>

\* the scenarios: what the AI asks the tunnel for, the shell step made to
\* fail if any, and the AI's answer to the check if one is given
Scenarios ==
    {[ai_command |-> c, fail_at |-> f, ai_answers |-> a] :
        c \in {MakeDeploy, <<"pm2 restart", " all">>, <<"make deploy", " now">>},
        f \in {NullStep} \cup DOMAIN MAKEFILE,
        a \in {EmptyObj, "check" :> "YES", "check" :> "NO", "check" :> ""}}

\* a shell step that never fails
runShellStepNeverFails(step, scenario) == [success |-> TRUE]

runShellStep(step, scenario) == [success |-> scenario.fail_at # step]

\* answers[step] || "YES"
runAIStep(step, scenario) ==
    LET answers == scenario.ai_answers
        answer == IF Has(answers, step) /\ answers[step] # "" THEN answers[step]
                  ELSE "YES"
    IN [answer |-> answer, success |-> (answer = "YES")]

\* the tunnel check at the head of runPipeline refuses the command
TunnelBlocks(ai_command) ==
    /\ ai_command # MakeDeploy
    /\ \/ \E j \in DOMAIN TUNNEL.blocks : Contains(ai_command, TUNNEL.blocks[j])
       \/ ~\E j \in DOMAIN TUNNEL.allowed_commands :
              TUNNEL.allowed_commands[j] = ai_command

\* runPipeline(scenario) is entered
InitMake ==
    /\ running = FALSE
    /\ now = 0
    /\ today = 0
    /\ tunnelsFile = Stringify(InitTunnels)
    /\ tunnelsCache = InitTunnels
    /\ apiKeysFile = Stringify(KeysNested)
    /\ apiKeysCache = KeysNested
    /\ pipelineStateCache = EmptyObj
    /\ pipelineStateFile = Stringify(EmptyObj)
    /\ mwApiKeysCache = NotLoaded
    /\ usageCache = EmptyObj
    /\ usageFile = Stringify(EmptyObj)
    /\ inflight = [i \in 1..MaxInflight |-> NoRequest]
    /\ restarts = MaxRestarts
    /\ resp = NoResponse
    /\ sim = NoSim
    /\ \E scenario \in Scenarios :
          make = [pc |-> "tunnel", scenario |-> scenario, completed |-> {},
                  aborted |-> FALSE, i |-> 1, ran |-> <<>>]

\* the tunnel check: the pipeline is refused or the loop is entered
MakeTunnel ==
    /\ make.pc = "tunnel"
    /\ make' = IF TunnelBlocks(make.scenario.ai_command)
               THEN [make EXCEPT !.pc = "returned"] @@ [result |-> FALSE]
               ELSE [make EXCEPT !.pc = "loop"]
    /\ UNCHANGED << running, now, today, tunnelsCache, apiKeysCache,
                    pipelineStateCache, mwApiKeysCache, usageCache, tunnelsFile,
                    apiKeysFile, pipelineStateFile, usageFile, inflight,
                    restarts, resp, sim >>

\* one iteration of the loop over the steps
MakeStep ==
    /\ make.pc = "loop"
    /\ make.i <= Len(StepOrder)
    /\ LET step == StepOrder[make.i]
           def == MAKEFILE[step]
           result == IF def.type = "shell" THEN runShellStep(step, make.scenario)
                     ELSE runAIStep(step, make.scenario)
       IN
       make' =
          IF make.aborted THEN [make EXCEPT !.i = @ + 1]
          ELSE IF def.depends_on # NullStep /\ def.depends_on \notin make.completed
          THEN [make EXCEPT !.aborted = TRUE, !.i = @ + 1]
          ELSE IF result.success
          THEN [make EXCEPT !.ran = Append(@, step),
                            !.completed = @ \cup {step}, !.i = @ + 1]
          ELSE [make EXCEPT !.ran = Append(@, step),
                            !.aborted = TRUE, !.i = @ + 1]
    /\ UNCHANGED << running, now, today, tunnelsCache, apiKeysCache,
                    pipelineStateCache, mwApiKeysCache, usageCache, tunnelsFile,
                    apiKeysFile, pipelineStateFile, usageFile, inflight,
                    restarts, resp, sim >>

\* after the loop: allDone is returned
MakeReturn ==
    /\ make.pc = "loop"
    /\ make.i > Len(StepOrder)
    /\ make' = [make EXCEPT !.pc = "returned"]
               @@ [result |-> (\A j \in DOMAIN StepOrder :
                                   StepOrder[j] \in make.completed)]
    /\ UNCHANGED << running, now, today, tunnelsCache, apiKeysCache,
                    pipelineStateCache, mwApiKeysCache, usageCache, tunnelsFile,
                    apiKeysFile, pipelineStateFile, usageFile, inflight,
                    restarts, resp, sim >>

NextMake == MakeTunnel \/ MakeStep \/ MakeReturn

SpecMake == InitMake /\ [][NextMake]_vars

\* step s of the scenario fails: the shell step named by fail_at, or the AI
\* step whose answer is not YES
StepFails(s) ==
    IF MAKEFILE[s].type = "shell" THEN make.scenario.fail_at = s
    ELSE runAIStep(s, make.scenario).answer # "YES"

\* C40: a scenario whose ai_command is not 'make deploy' is refused at the
\* tunnel and runs no step; otherwise the steps run in the order git-pull,
\* install, build, check, restart, each only after the step it depends on
\* completed, none after the first step that failed, and restart completes
\* only when the four steps before it did.
MakeHaltsOnFailure ==
    /\ (make.scenario.ai_command # MakeDeploy /\ make.pc # "tunnel") =>
          /\ make.pc = "returned" /\ ~make.result
          /\ make.ran = <<>> /\ make.completed = {}
    /\ make.ran = SubSeq(StepOrder, 1, Len(make.ran))
    /\ make.completed = {make.ran[j] : j \in {k \in DOMAIN make.ran :
                                                 ~StepFails(make.ran[k])}}
    /\ \A j \in DOMAIN make.ran :
          /\ MAKEFILE[make.ran[j]].depends_on # NullStep =>
                MAKEFILE[make.ran[j]].depends_on \in make.completed
          /\ StepFails(make.ran[j]) => j = Len(make.ran)
    /\ "restart" \in make.completed =>
          {"git-pull", "install", "build", "check"} \subseteq make.completed
    /\ make.pc = "returned" =>
          (make.result <=> make.completed = DOMAIN MAKEFILE)

\* the build failed after git-pull and install completed: the run is over,
\* neither check nor restart was run
MakeWitness ==
    /\ make.pc = "returned"
    /\ make.scenario.fail_at = "build"
    /\ make.ran = <<"git-pull", "install", "build">>
    /\ make.completed = {"git-pull", "install"}
    /\ ~make.result

\* the AI answered NO: restart was not run
MakeWitnessNo ==
    /\ make.pc = "returned"
    /\ make.ran = <<"git-pull", "install", "build", "check">>
    /\ "check" \notin make.completed

====
